---- MODULE Spec2Model ----
(***************************************************************************)
(* Model of dart::neural::DifferentiableContactConstraint: one row of the  *)
(* contact LCP, its copied Contact record, and the analytical queries it   *)
(* answers against the live world (DOF classification, force multiples,    *)
(* generalized constraint forces, gradients and Jacobians).                *)
(*                                                                         *)
(* Reals are modelled by integers: every vector of the model has integer   *)
(* components, so sums, products, dot and cross products are exact.        *)
(***************************************************************************)
EXTENDS Integers, Sequences, FiniteSets, TLC

VARIABLES constraint, dcc, pose, world, frame, peerId, solver, query, call, refSkel

vars == <<constraint, dcc, pose, world, frame, peerId, solver, query, call,
          refSkel>>

(***************************************************************************)
(* Bounds of the model.                                                    *)
(***************************************************************************)
\* Number of world configurations the kinematics oracle is sampled at.
NumPoses == 2

(***************************************************************************)
(* Linear algebra on integer 3-vectors and 6-vectors (head, tail).         *)
(***************************************************************************)
Zero3 == <<0, 0, 0>>

UnitX == <<1, 0, 0>>

UnitY == <<0, 1, 0>>

UnitZ == <<0, 0, 1>>

Add(a, b) == <<a[1] + b[1], a[2] + b[2], a[3] + b[3]>>

Sub(a, b) == <<a[1] - b[1], a[2] - b[2], a[3] - b[3]>>

Scale(s, a) == <<s * a[1], s * a[2], s * a[3]>>

Dot(a, b) == a[1] * b[1] + a[2] * b[2] + a[3] * b[3]

Cross(a, b) ==
  <<a[2] * b[3] - a[3] * b[2],
    a[3] * b[1] - a[1] * b[3],
    a[1] * b[2] - a[2] * b[1]>>

squaredNorm(a) == Dot(a, a)

Vec6(h, t) == [head |-> h, tail |-> t]

Zero6 == Vec6(Zero3, Zero3)

Dot6(a, b) == Dot(a.head, b.head) + Dot(a.tail, b.tail)

(***************************************************************************)
(* The world: two skeletons.  "arm" has two trees; tree 0 is a branching   *)
(* chain J1 -> J2 -> J3 and J1 -> J4 (J2 is a two-DOF joint), tree 1 is    *)
(* the single root joint J5.  "box" is a single root joint J6.  Body b is  *)
(* the child body of joint b.                                              *)
(***************************************************************************)
\* nullptr for a BodyNode* and for a Joint*.
NoBody == 0

NoJoint == 0

JointSkel == <<"arm", "arm", "arm", "arm", "arm", "box">>

JointTree == <<0, 0, 0, 0, 1, 0>>

\* Parent body of each joint (NoBody for a root joint).
JointParentBody == <<0, 1, 2, 1, 0, 0>>

\* Index in its tree of the first DOF of each joint.
JointIndexInTree0 == <<0, 1, 3, 4, 0, 0>>

Joints == 1 .. Len(JointSkel)

Bodies == Joints

\* Parent joint of each body.
BodyParentJoint == [b \in Bodies |-> b]

\* DOFs: the joint that owns each and its index in that joint.
DofJoint == <<1, 2, 2, 3, 4, 5, 6>>

DofIndexInJoint == <<0, 0, 1, 0, 0, 0, 0>>

Dofs == 1 .. Len(DofJoint)

\* The world's skeletons in registration order, and each skeleton's DOFs.
WorldSkeletons == <<"box", "arm">>

Skels == {WorldSkeletons[i] : i \in 1 .. Len(WorldSkeletons)}

\* skel->getDofs(), for every skeleton of the world.
SkelDofsOf ==
  [skel \in Skels |->
     SelectSeq([d \in Dofs |-> d], LAMBDA d : JointSkel[DofJoint[d]] = skel)]

SkelDofs(skel) == SkelDofsOf[skel]

RECURSIVE ConcatDofs(_)
ConcatDofs(i) ==
  IF i > Len(WorldSkeletons) THEN <<>>
  ELSE SkelDofs(WorldSkeletons[i]) \o ConcatDofs(i + 1)

\* world->getDofs(): every skeleton's DOFs, in skeleton order.
WorldDofs == ConcatDofs(1)

(***************************************************************************)
(* Kinematics oracle: the world screw axis of each DOF in each pose.       *)
(***************************************************************************)
DofAxis == <<UnitZ, UnitX, UnitY, UnitZ, UnitY, UnitX, UnitY>>

\* DOFs whose joint is prismatic (pure translation); the others revolve.
PrismaticDofs == {7}

\* A point on the axis of joint j when the world is in pose p.
JointOrigin(j, p) == <<j % 3, p, (j + p) % 2>>

Poses == 1 .. NumPoses

\* Row indices of one contact: 0 is the normal, 1 and 2 the ODE tangents.
Indices == {0, 1, 2}

(***************************************************************************)
(* Contact records.                                                        *)
(***************************************************************************)
ContactTypes == {"VERTEX_FACE", "FACE_VERTEX", "EDGE_EDGE", "UNSUPPORTED"}

Geom(pt, n, pa, da, pb, db) ==
  [point |-> pt, normal |-> n,
   edgeAFixedPoint |-> pa, edgeADir |-> da,
   edgeBFixedPoint |-> pb, edgeBDir |-> db]

\* Contact geometries the collision oracle reports: a unit normal, and for
\* the edge data two crossing edges.  GeomOrigin is two edges along x and y
\* meeting at the origin.
GeomOrigin == Geom(Zero3, UnitZ, Zero3, UnitX, Zero3, UnitY)

GeomAxes == Geom(<<0, 1, 2>>, UnitX, <<0, 0, 2>>, UnitY, <<0, 1, 0>>, UnitZ)

GeomSkew == Geom(<<2, 0, 1>>, UnitZ, <<2, 0, 1>>, <<1, 1, 0>>, <<0, 0, 1>>, UnitX)

Geoms == {GeomOrigin, GeomAxes, GeomSkew}

Contact(t, g) == [type |-> t, geom |-> g]

\* The Contact records of the model: every type, each with two or three of
\* the geometries.
Contacts ==
  { Contact("EDGE_EDGE", GeomOrigin), Contact("EDGE_EDGE", GeomAxes),
    Contact("EDGE_EDGE", GeomSkew),
    Contact("VERTEX_FACE", GeomAxes), Contact("VERTEX_FACE", GeomSkew),
    Contact("FACE_VERTEX", GeomOrigin), Contact("FACE_VERTEX", GeomSkew),
    Contact("UNSUPPORTED", GeomAxes), Contact("UNSUPPORTED", GeomSkew) }

\* The value of an absent Contact.
NoContact == [type |-> "NULL", geom |-> Geom(Zero3, Zero3, Zero3, Zero3, Zero3, Zero3)]

(***************************************************************************)
(* Constraints of the LCP: a ContactConstraint between two bodies with its *)
(* (mutable) Contact record, or another kind of constraint on a set of     *)
(* skeletons.                                                              *)
(***************************************************************************)
ContactConstraints ==
  {[isContact |-> TRUE, bodyA |-> ab[1], bodyB |-> ab[2], contact |-> ct, skels |-> {}] :
     ab \in {x \in Bodies \X Bodies : x[1] # x[2]}, ct \in Contacts}

OtherConstraints ==
  {[isContact |-> FALSE, bodyA |-> NoBody, bodyB |-> NoBody,
    contact |-> NoContact, skels |-> S] : S \in (SUBSET Skels) \ {{}}}

\* constraint->getSkeletons(), as skeleton names.
getSkeletons(c) ==
  IF c.isContact
    THEN {JointSkel[BodyParentJoint[c.bodyA]], JointSkel[BodyParentJoint[c.bodyB]]}
    ELSE c.skels

(***************************************************************************)
(* mContact is a shared pointer: null, the constraint's own heap copy of   *)
(* a Contact ("own"), or the record held by the ContactConstraint ("ref"). *)
(***************************************************************************)
NullPtr == [kind |-> "null", val |-> NoContact]

\* The pointer is taken to the ContactConstraint's record, without a copy.
AliasOfContact(c) == [kind |-> "ref", val |-> NoContact]

\* std::make_shared<collision::Contact>(mContactConstraint->getContact())
CopyOfContact(c) == [kind |-> "own", val |-> c.contact]

\* The object a Contact pointer designates, given the live constraint.
Deref(ptr, c) == IF ptr.kind = "ref" THEN c.contact ELSE ptr.val

NotConstructed ==
  [constructed |-> FALSE, mIndex |-> 0, mContact |-> NullPtr, mSkeletons |-> {}]

\* DifferentiableContactConstraint(constraint, index)
NewDifferentiableContactConstraint(c, index) ==
  [constructed |-> TRUE,
   mIndex |-> index,
   mContact |-> IF c.isContact THEN CopyOfContact(c) ELSE NullPtr,
   mSkeletons |-> getSkeletons(c)]

\* What a query of the constraint object reads: the object itself, the
\* constraint it points to (mConstraint, mContactConstraint) and the world.
Env(k, c, p) == [k |-> k, c |-> c, pose |-> p]

Cur == Env(dcc, constraint, pose)

mContact(e) == Deref(e.k.mContact, e.c).geom

(***************************************************************************)
(* Queries of the constraint.                                              *)
(***************************************************************************)
getContactWorldPosition(e) ==
  IF ~e.c.isContact THEN Zero3 ELSE mContact(e).point

getContactWorldNormal(e) ==
  IF ~e.c.isContact THEN Zero3 ELSE mContact(e).normal

\* ContactConstraint::getTangentBasisMatrixODE(n): the two tangent columns.
getTangentBasisMatrixODE(n) ==
  LET t0 == Cross(n, UnitZ)
      t1 == IF squaredNorm(t0) = 0 THEN Cross(n, UnitX) ELSE t0
  IN  <<t1, Cross(n, t1)>>

\* The index is not looked at: every row pushes along the normal.
getContactWorldForceDirection_AlwaysNormal(e) ==
  IF ~e.c.isContact THEN Zero3 ELSE mContact(e).normal

getContactWorldForceDirection(e) ==
  IF ~e.c.isContact THEN Zero3
  ELSE IF e.k.mIndex = 0 THEN mContact(e).normal
  ELSE getTangentBasisMatrixODE(mContact(e).normal)[e.k.mIndex]

\* The torque is taken as direction cross position.
getWorldForce_CrossReversed(e) ==
  Vec6(Cross(getContactWorldForceDirection(e), getContactWorldPosition(e)),
       getContactWorldForceDirection(e))

getWorldForce(e) ==
  Vec6(Cross(getContactWorldPosition(e), getContactWorldForceDirection(e)),
       getContactWorldForceDirection(e))

getContactType(e) ==
  IF ~e.c.isContact THEN "UNSUPPORTED" ELSE Deref(e.k.mContact, e.c).type

(***************************************************************************)
(* Ancestor tests.                                                         *)
(***************************************************************************)
\* The tables of the world's skeletons, as the ancestor tests read them.
WorldTree ==
  [skel |-> JointSkel, tree |-> JointTree, parentBody |-> JointParentBody,
   parentJoint |-> BodyParentJoint, indexInTree0 |-> JointIndexInTree0]

\* The cursor stays on the joint it is on.
isParentUp_Stays(T, joint) == joint

\* One turn of the while (true) loop that does not return: the cursor
\* moves to the parent joint of the joint's parent body.
isParentUp(T, joint) == T.parentJoint[T.parentBody[joint]]

\* The while (true) loop of both isParent overloads, on the tables T.
RECURSIVE isParentWalk(_, _, _)
isParentWalk(T, target, joint) ==
  IF joint = target THEN TRUE
  ELSE IF T.parentBody[joint] = NoBody
          \/ T.parentJoint[T.parentBody[joint]] = NoJoint
    THEN FALSE
  ELSE isParentWalk(T, target, T.parentJoint[T.parentBody[joint]])

\* The index-in-tree exit refuses the joint itself as well.
isParentOf_ExitOnEqual(T, dofJoint, node) ==
  LET nodeParentJoint == T.parentJoint[node]
  IN  IF T.skel[dofJoint] # T.skel[nodeParentJoint]
         \/ T.tree[dofJoint] # T.tree[nodeParentJoint]
        THEN FALSE
      ELSE IF T.indexInTree0[dofJoint] >= T.indexInTree0[nodeParentJoint]
        THEN FALSE
      ELSE isParentWalk(T, dofJoint, nodeParentJoint)

\* isParent(dof, node) on the tables T, dofJoint being dof->getJoint().
isParentOf(T, dofJoint, node) ==
  LET nodeParentJoint == T.parentJoint[node]
  IN  IF T.skel[dofJoint] # T.skel[nodeParentJoint]
         \/ T.tree[dofJoint] # T.tree[nodeParentJoint]
        THEN FALSE
      ELSE IF T.indexInTree0[dofJoint] > T.indexInTree0[nodeParentJoint]
        THEN FALSE
      ELSE isParentWalk(T, dofJoint, nodeParentJoint)

\* The answers of isParent on the world's DOFs and bodies, computed once.
isParentInWorld ==
  [dof \in Dofs, node \in Bodies |-> isParentOf(WorldTree, DofJoint[dof], node)]

\* isParent(const DegreeOfFreedom* dof, const BodyNode* node)
isParent(dof, node) == isParentInWorld[dof, node]

\* isParent(const DegreeOfFreedom* parent, const DegreeOfFreedom* child)
isParentDof(parent, child) ==
  LET parentJoint == DofJoint[parent]
      childJoint == DofJoint[child]
  IN  IF parentJoint = childJoint
        THEN DofIndexInJoint[parent] # DofIndexInJoint[child]
      ELSE IF JointSkel[parentJoint] # JointSkel[childJoint]
              \/ JointTree[parentJoint] # JointTree[childJoint]
        THEN FALSE
      ELSE IF JointIndexInTree0[parentJoint] > JointIndexInTree0[childJoint]
        THEN FALSE
      ELSE isParentWalk(WorldTree, parentJoint, childJoint)

(***************************************************************************)
(* Geometry helpers of dart::math used by the gradients.                   *)
(***************************************************************************)
\* math::gradientWrtTheta(screw, point, 0.0): velocity of a world point
\* under unit rate of the screw.
gradientWrtTheta(screw, point) == Add(Cross(screw.head, point), screw.tail)

\* math::gradientWrtThetaPureRotation(w, v, 0.0)
gradientWrtThetaPureRotation(w, v) == Cross(w, v)

\* math::ad(X, Y), the Lie bracket of two screws.
ad(X, Y) ==
  Vec6(Cross(X.head, Y.head),
       Add(Cross(X.head, Y.tail), Cross(X.tail, Y.head)))

\* Quotient of the model's integers, 0 where the code would divide by 0.
Quot(a, b) == IF b = 0 THEN 0 ELSE a \div b

\* math::getContactPointGradient: derivative of the closed-form nearest
\* point of two skew lines (midpoint of the common perpendicular), given
\* each edge's point and direction and the gradients of all four.
getContactPointGradient(pA, gpA, dA, gdA, pB, gpB, dB, gdB) ==
  LET p13 == Sub(pA, pB)
      g13 == Sub(gpA, gpB)
      d1343 == Dot(p13, dB)
      g1343 == Dot(g13, dB) + Dot(p13, gdB)
      d4321 == Dot(dB, dA)
      g4321 == Dot(gdB, dA) + Dot(dB, gdA)
      d1321 == Dot(p13, dA)
      g1321 == Dot(g13, dA) + Dot(p13, gdA)
      d4343 == Dot(dB, dB)
      g4343 == 2 * Dot(dB, gdB)
      d2121 == Dot(dA, dA)
      g2121 == 2 * Dot(dA, gdA)
      denom == d2121 * d4343 - d4321 * d4321
      gdenom == g2121 * d4343 + d2121 * g4343 - 2 * d4321 * g4321
      numer == d1343 * d4321 - d1321 * d4343
      gnumer == g1343 * d4321 + d1343 * g4321 - g1321 * d4343 - d1321 * g4343
      mua == Quot(numer, denom)
      gmua == Quot(gnumer * denom - numer * gdenom, denom * denom)
      mubNum == d1343 + d4321 * mua
      gmubNum == g1343 + g4321 * mua + d4321 * gmua
      mub == Quot(mubNum, d4343)
      gmub == Quot(gmubNum * d4343 - mubNum * g4343, d4343 * d4343)
      gpa == Add(gpA, Add(Scale(gmua, dA), Scale(mua, gdA)))
      gpb == Add(gpB, Add(Scale(gmub, dB), Scale(mub, gdB)))
      sum == Add(gpa, gpb)
  IN  <<Quot(sum[1], 2), Quot(sum[2], 2), Quot(sum[3], 2)>>

\* ContactConstraint::getTangentBasisMatrixODEGradient(n, g): the gradient
\* of the two tangent columns when the normal moves with gradient g.
getTangentBasisMatrixODEGradient(n, g) ==
  LET useX == squaredNorm(Cross(n, UnitZ)) = 0
      t1 == IF useX THEN Cross(n, UnitX) ELSE Cross(n, UnitZ)
      g1 == IF useX THEN Cross(g, UnitX) ELSE Cross(g, UnitZ)
  IN  <<g1, Add(Cross(g, t1), Cross(n, g1))>>

(***************************************************************************)
(* Per-DOF queries.                                                        *)
(***************************************************************************)
\* getWorldScrewAxis(dof): AdT(child world transform, relative Jacobian col)
getWorldScrewAxis(e, dof) ==
  LET a == DofAxis[dof]
      o == JointOrigin(DofJoint[dof], e.pose)
  IN  IF dof \in PrismaticDofs THEN Vec6(Zero3, a) ELSE Vec6(a, Cross(o, a))

\* Variants of the classification, each with one slip of the kind the
\* switch invites: what EDGE_EDGE gives a DOF above A only and above B
\* only, what a DOF above neither body gives, and what the default case of
\* the self-collision switch gives.
ClassifyWith(e, dof, eeAOnly, eeBOnly, neither, dfltBoth) ==
  LET isParentA == isParent(dof, e.c.bodyA)
      isParentB == isParent(dof, e.c.bodyB)
      type == getContactType(e)
  IN  IF isParentA /\ isParentB
        THEN CASE type \in {"FACE_VERTEX", "VERTEX_FACE"} -> "VERTEX_FACE_SELF_COLLISION"
               [] type = "EDGE_EDGE" -> "EDGE_EDGE_SELF_COLLISION"
               [] OTHER -> dfltBoth
      ELSE IF ~isParentA /\ ~isParentB
        THEN (IF neither = "by type"
                THEN (IF type = "UNSUPPORTED" THEN "UNSUPPORTED" ELSE "NONE")
              ELSE IF neither = "as B"
                THEN CASE type = "FACE_VERTEX" -> "VERTEX"
                       [] type = "VERTEX_FACE" -> "FACE"
                       [] type = "EDGE_EDGE" -> eeBOnly
                       [] OTHER -> "UNSUPPORTED"
              ELSE "NONE")
      ELSE IF isParentA
        THEN CASE type = "FACE_VERTEX" -> "FACE"
               [] type = "VERTEX_FACE" -> "VERTEX"
               [] type = "EDGE_EDGE" -> eeAOnly
               [] OTHER -> "UNSUPPORTED"
      ELSE CASE type = "FACE_VERTEX" -> "VERTEX"
             [] type = "VERTEX_FACE" -> "FACE"
             [] type = "EDGE_EDGE" -> eeBOnly
             [] OTHER -> "UNSUPPORTED"

\* EDGE_A and EDGE_B exchanged.
getDofContactType_EdgesSwapped(e, dof) ==
  ClassifyWith(e, dof, "EDGE_A", "EDGE_B", "NONE", "UNSUPPORTED")

\* The contact type is looked at before the ancestor tests.
getDofContactType_TypeFirst(e, dof) ==
  ClassifyWith(e, dof, "EDGE_B", "EDGE_A", "by type", "UNSUPPORTED")

\* The test for a DOF above neither body is missing.
getDofContactType_NoNoneBranch(e, dof) ==
  ClassifyWith(e, dof, "EDGE_B", "EDGE_A", "as B", "UNSUPPORTED")

\* The self-collision switch has no default and falls into its first case.
getDofContactType_NoDefault(e, dof) ==
  ClassifyWith(e, dof, "EDGE_B", "EDGE_A", "NONE", "VERTEX_FACE_SELF_COLLISION")

\* The default cases of the switches answer VERTEX.
DofContactTypeOf_DefaultVertex(isParentA, isParentB, type) ==
  IF isParentA /\ isParentB
    THEN CASE type \in {"FACE_VERTEX", "VERTEX_FACE"} -> "VERTEX_FACE_SELF_COLLISION"
           [] type = "EDGE_EDGE" -> "EDGE_EDGE_SELF_COLLISION"
           [] OTHER -> "VERTEX"
  ELSE IF ~isParentA /\ ~isParentB
    THEN "NONE"
  ELSE IF isParentA
    THEN CASE type = "FACE_VERTEX" -> "FACE"
           [] type = "VERTEX_FACE" -> "VERTEX"
           [] type = "EDGE_EDGE" -> "EDGE_B"
           [] OTHER -> "VERTEX"
  ELSE CASE type = "FACE_VERTEX" -> "VERTEX"
         [] type = "VERTEX_FACE" -> "FACE"
         [] type = "EDGE_EDGE" -> "EDGE_A"
         [] OTHER -> "VERTEX"

\* The switches of getDofContactType on the two ancestor tests and the
\* contact type.
DofContactTypeOf(isParentA, isParentB, type) ==
  IF isParentA /\ isParentB
    THEN CASE type \in {"FACE_VERTEX", "VERTEX_FACE"} -> "VERTEX_FACE_SELF_COLLISION"
           [] type = "EDGE_EDGE" -> "EDGE_EDGE_SELF_COLLISION"
           [] OTHER -> "UNSUPPORTED"
  ELSE IF ~isParentA /\ ~isParentB
    THEN "NONE"
  ELSE IF isParentA
    THEN CASE type = "FACE_VERTEX" -> "FACE"
           [] type = "VERTEX_FACE" -> "VERTEX"
           [] type = "EDGE_EDGE" -> "EDGE_B"
           [] OTHER -> "UNSUPPORTED"
  ELSE CASE type = "FACE_VERTEX" -> "VERTEX"
         [] type = "VERTEX_FACE" -> "FACE"
         [] type = "EDGE_EDGE" -> "EDGE_A"
         [] OTHER -> "UNSUPPORTED"

getDofContactType(e, dof) ==
  DofContactTypeOf(isParent(dof, e.c.bodyA), isParent(dof, e.c.bodyB), getContactType(e))

\* The self-collision test is missing: a DOF above both bodies counts for A.
getForceMultiple_NoSelfCollision(e, dof) ==
  IF ~e.c.isContact THEN 1
  ELSE IF isParent(dof, e.c.bodyA) THEN 1
  ELSE IF isParent(dof, e.c.bodyB) THEN -1
  ELSE 0

\* The sign of body B's side is lost.
getForceMultiple_Unsigned(e, dof) ==
  IF ~e.c.isContact THEN 1
  ELSE LET isParentA == isParent(dof, e.c.bodyA)
           isParentB == isParent(dof, e.c.bodyB)
       IN  IF isParentA /\ isParentB THEN 0
           ELSE IF isParentA \/ isParentB THEN 1
           ELSE 0

\* Every DOF of a tree that holds A or B is given a share of the force.
getForceMultiple_WholeTree(e, dof) ==
  IF ~e.c.isContact THEN 1
  ELSE LET isParentA == isParent(dof, e.c.bodyA)
           isParentB == isParent(dof, e.c.bodyB)
           j == DofJoint[dof]
           a == BodyParentJoint[e.c.bodyA]
       IN  IF isParentA /\ isParentB THEN 0
           ELSE IF isParentA THEN 1
           ELSE IF isParentB THEN -1
           ELSE IF JointSkel[j] = JointSkel[a] /\ JointTree[j] = JointTree[a] THEN 1
           ELSE 0

getForceMultiple(e, dof) ==
  IF ~e.c.isContact THEN 1
  ELSE LET isParentA == isParent(dof, e.c.bodyA)
           isParentB == isParent(dof, e.c.bodyB)
       IN  IF isParentA /\ isParentB THEN 0
           ELSE IF isParentA THEN 1
           ELSE IF isParentB THEN -1
           ELSE 0

\* The force multiple is left out of the product.
getConstraintForces_NoMultiple(e, skel) ==
  LET dofs == SkelDofs(skel)
      worldForce == getWorldForce(e)
  IN  IF skel \notin e.k.mSkeletons
        THEN [i \in 1 .. Len(dofs) |-> 0]
      ELSE [i \in 1 .. Len(dofs) |->
              IF getForceMultiple(e, dofs[i]) = 0 THEN 0
              ELSE Dot6(getWorldScrewAxis(e, dofs[i]), worldForce)]

\* getConstraintForces(skel): one entry per DOF of the skeleton.
getConstraintForces(e, skel) ==
  LET dofs == SkelDofs(skel)
      worldForce == getWorldForce(e)
  IN  IF skel \notin e.k.mSkeletons
        THEN [i \in 1 .. Len(dofs) |-> 0]
      ELSE [i \in 1 .. Len(dofs) |->
              LET multiple == getForceMultiple(e, dofs[i])
              IN  IF multiple = 0 THEN 0
                  ELSE Dot6(getWorldScrewAxis(e, dofs[i]), worldForce) * multiple]

RECURSIVE ConcatForces(_, _)
ConcatForces(e, i) ==
  IF i > Len(WorldSkeletons) THEN <<>>
  ELSE getConstraintForces(e, WorldSkeletons[i]) \o ConcatForces(e, i + 1)

\* getConstraintForces(world): the skeletons' vectors, in skeleton order.
getConstraintForcesWorld(e) == ConcatForces(e, 1)

getConstraintForce(e, dof) ==
  LET multiple == getForceMultiple(e, dof)
  IN  Dot6(getWorldScrewAxis(e, dof), getWorldForce(e)) * multiple

(***************************************************************************)
(* Gradients with respect to one DOF.                                      *)
(***************************************************************************)
\* Variants of the position gradient: the DOF-contact types whose gradient
\* is the velocity of the contact point, and whether the default case
\* returns that velocity instead of zero.
PositionGradientWith(e, dof, pointTypes, defaultMoves) ==
  LET contactPos == getContactWorldPosition(e)
      type == getDofContactType(e, dof)
      worldTwist == getWorldScrewAxis(e, dof)
      ct == mContact(e)
  IN  IF type = "FACE" THEN Zero3
      ELSE IF type \in pointTypes
        THEN gradientWrtTheta(worldTwist, contactPos)
      ELSE IF type = "EDGE_A"
        THEN getContactPointGradient(
               ct.edgeAFixedPoint,
               gradientWrtTheta(worldTwist, ct.edgeAFixedPoint),
               ct.edgeADir,
               gradientWrtThetaPureRotation(worldTwist.head, ct.edgeADir),
               ct.edgeBFixedPoint, Zero3, ct.edgeBDir, Zero3)
      ELSE IF type = "EDGE_B"
        THEN getContactPointGradient(
               ct.edgeAFixedPoint, Zero3, ct.edgeADir, Zero3,
               ct.edgeBFixedPoint,
               gradientWrtTheta(worldTwist, ct.edgeBFixedPoint),
               ct.edgeBDir,
               gradientWrtThetaPureRotation(worldTwist.head, ct.edgeBDir))
      ELSE IF defaultMoves /\ type # "NONE"
        THEN gradientWrtTheta(worldTwist, contactPos)
      ELSE Zero3

\* The self-collision types are left out of the moving-point case.
getContactPositionGradient_SelfZero(e, dof) ==
  PositionGradientWith(e, dof, {"VERTEX"}, FALSE)

\* Only NONE gives zero; UNSUPPORTED moves with the contact point.
getContactPositionGradient_DefaultMoves(e, dof) ==
  PositionGradientWith(e, dof,
    {"VERTEX", "VERTEX_FACE_SELF_COLLISION", "EDGE_EDGE_SELF_COLLISION"}, TRUE)

\* Under an EDGE_A or EDGE_B DOF both edges are carried along.
getContactPositionGradient_BothEdgesMove(e, dof) ==
  LET contactPos == getContactWorldPosition(e)
      type == getDofContactType(e, dof)
      worldTwist == getWorldScrewAxis(e, dof)
      ct == mContact(e)
  IN  IF type = "FACE" THEN Zero3
      ELSE IF type \in {"VERTEX", "VERTEX_FACE_SELF_COLLISION", "EDGE_EDGE_SELF_COLLISION"}
        THEN gradientWrtTheta(worldTwist, contactPos)
      ELSE IF type \in {"EDGE_A", "EDGE_B"}
        THEN getContactPointGradient(
               ct.edgeAFixedPoint,
               gradientWrtTheta(worldTwist, ct.edgeAFixedPoint),
               ct.edgeADir,
               gradientWrtThetaPureRotation(worldTwist.head, ct.edgeADir),
               ct.edgeBFixedPoint,
               gradientWrtTheta(worldTwist, ct.edgeBFixedPoint),
               ct.edgeBDir,
               gradientWrtThetaPureRotation(worldTwist.head, ct.edgeBDir))
      ELSE Zero3

getContactPositionGradient(e, dof) ==
  LET contactPos == getContactWorldPosition(e)
      type == getDofContactType(e, dof)
      worldTwist == getWorldScrewAxis(e, dof)
      ct == mContact(e)
  IN  IF type = "FACE" THEN Zero3
      ELSE IF type \in {"VERTEX", "VERTEX_FACE_SELF_COLLISION", "EDGE_EDGE_SELF_COLLISION"}
        THEN gradientWrtTheta(worldTwist, contactPos)
      ELSE IF type = "EDGE_A"
        THEN getContactPointGradient(
               ct.edgeAFixedPoint,
               gradientWrtTheta(worldTwist, ct.edgeAFixedPoint),
               ct.edgeADir,
               gradientWrtThetaPureRotation(worldTwist.head, ct.edgeADir),
               ct.edgeBFixedPoint, Zero3, ct.edgeBDir, Zero3)
      ELSE IF type = "EDGE_B"
        THEN getContactPointGradient(
               ct.edgeAFixedPoint, Zero3, ct.edgeADir, Zero3,
               ct.edgeBFixedPoint,
               gradientWrtTheta(worldTwist, ct.edgeBFixedPoint),
               ct.edgeBDir,
               gradientWrtThetaPureRotation(worldTwist.head, ct.edgeBDir))
      ELSE Zero3

\* The normal is moved like a point: the translation of the screw is added.
getContactNormalGradient_AsPoint(e, dof) ==
  LET type == getDofContactType(e, dof)
  IN  IF type \in {"FACE", "VERTEX_FACE_SELF_COLLISION", "EDGE_EDGE_SELF_COLLISION",
                  "EDGE_A", "EDGE_B"}
        THEN gradientWrtTheta(getWorldScrewAxis(e, dof), getContactWorldNormal(e))
        ELSE Zero3

\* The edge directions are crossed in the other order.
getContactNormalGradient_EdgesCrossedBackwards(e, dof) ==
  LET normal == getContactWorldNormal(e)
      type == getDofContactType(e, dof)
      worldTwist == getWorldScrewAxis(e, dof)
      ct == mContact(e)
  IN  IF type = "VERTEX" THEN Zero3
      ELSE IF type \in {"FACE", "VERTEX_FACE_SELF_COLLISION", "EDGE_EDGE_SELF_COLLISION"}
        THEN gradientWrtThetaPureRotation(worldTwist.head, normal)
      ELSE IF type = "EDGE_A"
        THEN Cross(ct.edgeBDir, gradientWrtThetaPureRotation(worldTwist.head, ct.edgeADir))
      ELSE IF type = "EDGE_B"
        THEN Cross(gradientWrtThetaPureRotation(worldTwist.head, ct.edgeBDir), ct.edgeADir)
      ELSE Zero3

getContactNormalGradient(e, dof) ==
  LET normal == getContactWorldNormal(e)
      type == getDofContactType(e, dof)
      worldTwist == getWorldScrewAxis(e, dof)
      ct == mContact(e)
  IN  IF type = "VERTEX" THEN Zero3
      ELSE IF type \in {"FACE", "VERTEX_FACE_SELF_COLLISION", "EDGE_EDGE_SELF_COLLISION"}
        THEN gradientWrtThetaPureRotation(worldTwist.head, normal)
      ELSE IF type = "EDGE_A"
        THEN Cross(gradientWrtThetaPureRotation(worldTwist.head, ct.edgeADir), ct.edgeBDir)
      ELSE IF type = "EDGE_B"
        THEN Cross(ct.edgeADir, gradientWrtThetaPureRotation(worldTwist.head, ct.edgeBDir))
      ELSE Zero3

\* The body of getContactForceGradient on the values it reads: the DOF's
\* contact type, mIndex, the contact normal and the normal's gradient.
\* threshold is 1e-12 counted in squares of the unit of normalGradient.
\* The short circuit hands the normal's gradient back, for every row.
ContactForceGradientAt_ZeroBelowThreshold(type, mIndex, contactNormal, normalGradient,
                                          threshold) ==
  IF type = "VERTEX" THEN Zero3
  ELSE IF type \in {"FACE", "VERTEX_FACE_SELF_COLLISION", "EDGE_A", "EDGE_B",
                    "EDGE_EDGE_SELF_COLLISION"}
    THEN IF mIndex = 0 THEN normalGradient
         ELSE IF squaredNorm(normalGradient) < threshold THEN Zero3
         ELSE getTangentBasisMatrixODEGradient(contactNormal, normalGradient)[mIndex]
  ELSE Zero3

ContactForceGradientAt(type, mIndex, contactNormal, normalGradient, threshold) ==
  IF type = "VERTEX" THEN Zero3
  ELSE IF type \in {"FACE", "VERTEX_FACE_SELF_COLLISION", "EDGE_A", "EDGE_B",
                    "EDGE_EDGE_SELF_COLLISION"}
    THEN IF mIndex = 0 \/ squaredNorm(normalGradient) <= threshold
           THEN normalGradient
         ELSE getTangentBasisMatrixODEGradient(contactNormal, normalGradient)[mIndex]
  ELSE Zero3

\* The threshold 1e-12 on the squared norm separates, on integer vectors,
\* the zero vector from every other one.
getContactForceGradient(e, dof) ==
  ContactForceGradientAt(getDofContactType(e, dof), e.k.mIndex,
                         getContactWorldNormal(e), getContactNormalGradient(e, dof), 0)

\* The contact point is taken as fixed: only the direction term is kept.
getContactWorldForceGradient_PointFixed(e, dof) ==
  LET position == getContactWorldPosition(e)
      forceGradient == getContactForceGradient(e, dof)
  IN  Vec6(Cross(position, forceGradient), forceGradient)

getContactWorldForceGradient(e, dof) ==
  LET position == getContactWorldPosition(e)
      force == getContactWorldForceDirection(e)
      forceGradient == getContactForceGradient(e, dof)
      positionGradient == getContactPositionGradient(e, dof)
  IN  Vec6(Add(Cross(position, forceGradient), Cross(positionGradient, force)),
           forceGradient)

ZeroEdgeData ==
  [edgeAPos |-> Zero3, edgeADir |-> Zero3, edgeBPos |-> Zero3, edgeBDir |-> Zero3]

getEdgeGradient(e, dof) ==
  LET worldTwist == getWorldScrewAxis(e, dof)
      type == getDofContactType(e, dof)
      ct == mContact(e)
      aPos == gradientWrtTheta(worldTwist, ct.edgeAFixedPoint)
      aDir == gradientWrtThetaPureRotation(worldTwist.head, ct.edgeADir)
      bPos == gradientWrtTheta(worldTwist, ct.edgeBFixedPoint)
      bDir == gradientWrtThetaPureRotation(worldTwist.head, ct.edgeBDir)
  IN  IF type = "EDGE_A"
        THEN [ZeroEdgeData EXCEPT !.edgeAPos = aPos, !.edgeADir = aDir]
      ELSE IF type = "EDGE_B"
        THEN [ZeroEdgeData EXCEPT !.edgeBPos = bPos, !.edgeBDir = bDir]
      ELSE IF type = "EDGE_EDGE_SELF_COLLISION"
        THEN [edgeAPos |-> aPos, edgeADir |-> aDir, edgeBPos |-> bPos, edgeBDir |-> bDir]
      ELSE ZeroEdgeData

getEdges(e) ==
  LET ct == mContact(e)
  IN  IF getContactType(e) = "EDGE_EDGE"
        THEN [edgeAPos |-> ct.edgeAFixedPoint, edgeADir |-> ct.edgeADir,
              edgeBPos |-> ct.edgeBFixedPoint, edgeBDir |-> ct.edgeBDir]
      ELSE ZeroEdgeData

\* The ancestor test is asked the other way round.
getScrewAxisGradient_TestReversed(e, screwDof, rotateDof) ==
  IF ~isParentDof(screwDof, rotateDof) THEN Zero6
  ELSE ad(getWorldScrewAxis(e, rotateDof), getWorldScrewAxis(e, screwDof))

getScrewAxisGradient(e, screwDof, rotateDof) ==
  IF ~isParentDof(rotateDof, screwDof) THEN Zero6
  ELSE ad(getWorldScrewAxis(e, rotateDof), getWorldScrewAxis(e, screwDof))

(***************************************************************************)
(* The per-DOF queries that start with getDofContactType, as calls.  On a  *)
(* constraint that is no contact constraint mContactConstraint was never   *)
(* set: mContactConstraint->getBodyNodeA() reads through a null pointer,   *)
(* and the call goes down or goes on with whatever the two ancestor tests  *)
(* answer on what was read.                                                *)
(***************************************************************************)
DofQueries ==
  {"getDofContactType", "getContactPositionGradient", "getContactNormalGradient",
   "getContactForceGradient"}

\* The outcomes of a query on DOF dof: pc and result.
QueryOutcomes(e, fn, dof) ==
  IF e.c.isContact
    THEN {[pc |-> "returned",
           result |-> CASE fn = "getDofContactType" -> getDofContactType(e, dof)
                        [] fn = "getContactPositionGradient" ->
                             getContactPositionGradient(e, dof)
                        [] fn = "getContactNormalGradient" ->
                             getContactNormalGradient(e, dof)
                        [] OTHER -> getContactForceGradient(e, dof)]}
    ELSE {[pc |-> "crashed", result |-> Zero3]}
           \cup {LET type == DofContactTypeOf(a, b, getContactType(e))
                 IN  IF fn = "getDofContactType"
                       THEN [pc |-> "returned", result |-> type]
                     \* the default branch of each gradient
                     ELSE IF type \in {"NONE", "UNSUPPORTED"}
                       THEN [pc |-> "returned", result |-> Zero3]
                     \* any other branch reads the null mContact
                     ELSE [pc |-> "crashed", result |-> Zero3] :
                   a \in BOOLEAN, b \in BOOLEAN}

(***************************************************************************)
(* Jacobians over the world's DOFs (column i is WorldDofs[i]).             *)
(***************************************************************************)
getContactPositionJacobian(e) ==
  [i \in 1 .. Len(WorldDofs) |-> getContactPositionGradient(e, WorldDofs[i])]

getContactForceDirectionJacobian(e) ==
  [i \in 1 .. Len(WorldDofs) |-> getContactForceGradient(e, WorldDofs[i])]

getContactForceJacobian(e) ==
  LET pos == getContactWorldPosition(e)
      dir == getContactWorldForceDirection(e)
      posJac == getContactPositionJacobian(e)
      dirJac == getContactForceDirectionJacobian(e)
  IN  [i \in 1 .. Len(WorldDofs) |->
         Vec6(Add(Cross(pos, dirJac[i]), Cross(posJac[i], dir)), dirJac[i])]

getConstraintForceDerivative(e, dof, wrt) ==
  LET multiple == getForceMultiple(e, dof)
      worldForce == getWorldForce(e)
      gradientOfWorldForce == getContactWorldForceGradient(e, wrt)
      gradientOfWorldTwist == getScrewAxisGradient(e, dof, wrt)
      worldTwist == getWorldScrewAxis(e, dof)
  IN  (Dot6(worldTwist, gradientOfWorldForce) + Dot6(gradientOfWorldTwist, worldForce))
        * multiple

\* The screw axes are taken as constant: only the force term is kept.
getConstraintForcesJacobian_NoScrewTerm(e) ==
  LET dim == Len(WorldDofs)
      forceJac == getContactForceJacobian(e)
  IN  [row \in 1 .. dim, wrt \in 1 .. dim |->
         getForceMultiple(e, WorldDofs[row])
           * Dot6(getWorldScrewAxis(e, WorldDofs[row]), forceJac[wrt])]

\* getConstraintForcesJacobian(world)
getConstraintForcesJacobian(e) ==
  LET dim == Len(WorldDofs)
      forceJac == getContactForceJacobian(e)
      force == getWorldForce(e)
  IN  [row \in 1 .. dim, wrt \in 1 .. dim |->
         LET axis == getWorldScrewAxis(e, WorldDofs[row])
             screwAxisGradient == getScrewAxisGradient(e, WorldDofs[row], WorldDofs[wrt])
             forceGradient == forceJac[wrt]
             multiple == getForceMultiple(e, WorldDofs[row])
         IN  multiple * (Dot6(screwAxisGradient, force) + Dot6(axis, forceGradient))]

\* getContactForceJacobian(skel): column i is the skeleton's i-th DOF.
getContactForceJacobianSkel(e, skel) ==
  LET dofs == SkelDofs(skel)
      pos == getContactWorldPosition(e)
      dir == getContactWorldForceDirection(e)
  IN  [i \in 1 .. Len(dofs) |->
         LET dirCol == getContactForceGradient(e, dofs[i])
             posCol == getContactPositionGradient(e, dofs[i])
         IN  Vec6(Add(Cross(pos, dirCol), Cross(posCol, dir)), dirCol)]

\* getConstraintForcesJacobian(skel, wrt)
getConstraintForcesJacobianSkelWrt(e, skel, wrt) ==
  LET forceJac == getContactForceJacobianSkel(e, wrt)
      force == getWorldForce(e)
      rows == SkelDofs(skel)
      cols == SkelDofs(wrt)
  IN  [row \in 1 .. Len(rows), col \in 1 .. Len(cols) |->
         LET axis == getWorldScrewAxis(e, rows[row])
             screwAxisGradient == getScrewAxisGradient(e, rows[row], cols[col])
             multiple == getForceMultiple(e, rows[row])
         IN  multiple * (Dot6(screwAxisGradient, force) + Dot6(axis, forceJac[col]))]

\* The DOFs of a list of skeletons, concatenated in the list's order.
RECURSIVE SkelsDofs(_)
SkelsDofs(skels) ==
  IF skels = <<>> THEN <<>> ELSE SkelDofs(Head(skels)) \o SkelsDofs(Tail(skels))

\* getConstraintForcesJacobian(skels, wrt)
getConstraintForcesJacobianSkelsWrt(e, skels, wrt) ==
  LET forceJac == getContactForceJacobianSkel(e, wrt)
      force == getWorldForce(e)
      rows == SkelsDofs(skels)
      cols == SkelDofs(wrt)
  IN  [row \in 1 .. Len(rows), col \in 1 .. Len(cols) |->
         LET axis == getWorldScrewAxis(e, rows[row])
             screwAxisGradient == getScrewAxisGradient(e, rows[row], cols[col])
             multiple == getForceMultiple(e, rows[row])
         IN  multiple * (Dot6(screwAxisGradient, force) + Dot6(axis, forceJac[col]))]

\* The skeleton of the list whose column block holds column col, with the
\* block's first column (cursor) counted from 0.
RECURSIVE BlockOf(_, _, _)
BlockOf(skels, col, cursor) ==
  IF col <= cursor + Len(SkelDofs(Head(skels)))
    THEN [skel |-> Head(skels), cursor |-> cursor]
  ELSE BlockOf(Tail(skels), col, cursor + Len(SkelDofs(Head(skels))))

\* getConstraintForcesJacobian(skels): the blocks of every wrt skeleton.
getConstraintForcesJacobianSkels(e, skels) ==
  LET dofs == Len(SkelsDofs(skels))
  IN  [row \in 1 .. dofs, col \in 1 .. dofs |->
         LET b == BlockOf(skels, col, 0)
         IN  getConstraintForcesJacobianSkelsWrt(e, skels, b.skel)[row, col - b.cursor]]

(***************************************************************************)
(* The finite-difference validator.  A brute-force routine saves the world *)
(* in a RestorableSnapshot, perturbs one coordinate, re-runs the forward   *)
(* pass, looks its peer up in the new BackpropSnapshot and restores the    *)
(* world.  Positions, velocities and forces are vectors in world order.    *)
(***************************************************************************)
NumDofs == Len(WorldDofs)

NewWorld(q, dq, tau) == [q |-> q, dq |-> dq, tau |-> tau]

\* The world of a state machine that never runs the validator.
IdleWorld ==
  NewWorld([i \in 1 .. NumDofs |-> 0], [i \in 1 .. NumDofs |-> 0], [i \in 1 .. NumDofs |-> 0])

\* The worlds a brute-force routine is entered with.
Worlds ==
  {NewWorld([i \in 1 .. NumDofs |-> 0], [i \in 1 .. NumDofs |-> 1], [i \in 1 .. NumDofs |-> 2]),
   NewWorld([i \in 1 .. NumDofs |-> i], [i \in 1 .. NumDofs |-> -i], [i \in 1 .. NumDofs |-> 3 * i])}

\* Perturbation sizes a caller passes as eps, in model units.
Epsilons == {1, 2}

\* RestorableSnapshot snapshot(world): the saved positions, velocities, forces.
RestorableSnapshot(w) == NewWorld(w.q, w.dq, w.tau)

\* snapshot.restore()
restore(snapshot, w) ==
  [w EXCEPT !.q = snapshot.q, !.dq = snapshot.dq, !.tau = snapshot.tau]

\* world->setPositions(positions)
setPositions(w, positions) == [w EXCEPT !.q = positions]

\* positions with coordinate i (0-based) moved by eps
Perturbed(positions, i, eps) == [positions EXCEPT ![i + 1] = @ + eps]

\* The 0-based world index of DOF dofIndex (0-based) of skeleton skel.
RECURSIVE WorldOffsetOf(_, _)
WorldOffsetOf(skel, k) ==
  IF WorldSkeletons[k] = skel THEN 0
  ELSE Len(SkelDofs(WorldSkeletons[k])) + WorldOffsetOf(skel, k + 1)

\* dof->setPosition(dof->getPosition() + eps) for skel->getDof(dofIndex)
setDofPosition(w, skel, dofIndex, eps) ==
  setPositions(w, Perturbed(w.q, WorldOffsetOf(skel, 1) + dofIndex, eps))

\* The rows of a BackpropSnapshot are named by numbers; a pointer read past
\* the end of a list is GarbagePeer.
Rows == 1 .. 4

NoPeer == 0

GarbagePeer == -1

\* The snapshots neural::forwardPass(world, true) can return: the clamping
\* and the upper-bound constraints, in order.
BackpropSnapshots ==
  {[clamping |-> c, upperBound |-> u] :
     c \in {<<>>, <<1>>, <<1, 2>>, <<2, 1, 3>>}, u \in {<<>>, <<4>>, <<3, 4>>}}

\* The largest offset setOffsetIntoWorld is called with.
MaxOffset == 2

Offsets == 0 .. MaxOffset

\* mOffsetIntoWorld and mIsUpperBoundConstraint before setOffsetIntoWorld has
\* been called: the constructor does not set them.
Unassigned(offset, isUpperBoundConstraint) ==
  [mOffsetIntoWorld |-> offset, mIsUpperBoundConstraint |-> isUpperBoundConstraint,
   assigned |-> FALSE]

\* Only the offset is stored: the flag is lost.
setOffsetIntoWorld_FlagDropped(offset, isUpperBoundConstraint) ==
  [mOffsetIntoWorld |-> offset, mIsUpperBoundConstraint |-> FALSE, assigned |-> TRUE]

\* setOffsetIntoWorld(offset, isUpperBoundConstraint)
setOffsetIntoWorld(offset, isUpperBoundConstraint) ==
  [mOffsetIntoWorld |-> offset, mIsUpperBoundConstraint |-> isUpperBoundConstraint,
   assigned |-> TRUE]

\* The list is indexed by the offset and not by is-upper-bound.
getPeerConstraint_IgnoresUpperBound(k, snapshot) ==
  IF k.mOffsetIntoWorld < Len(snapshot.clamping)
    THEN snapshot.clamping[k.mOffsetIntoWorld + 1]
    ELSE GarbagePeer

\* An offset past the end is taken modulo the length of the list.
getPeerConstraint_WrapsAround(k, snapshot) ==
  LET list == IF k.mIsUpperBoundConstraint
                THEN snapshot.upperBound
                ELSE snapshot.clamping
  IN  IF Len(list) > 0
        THEN list[(k.mOffsetIntoWorld % Len(list)) + 1]
        ELSE GarbagePeer

\* getPeerConstraint(snapshot); std::vector::operator[] past the end reads
\* whatever lies there.
getPeerConstraint(k, snapshot) ==
  LET list == IF k.mIsUpperBoundConstraint
                THEN snapshot.upperBound
                ELSE snapshot.clamping
  IN  IF k.mOffsetIntoWorld < Len(list)
        THEN list[k.mOffsetIntoWorld + 1]
        ELSE GarbagePeer

\* The call frame of a brute-force routine; entry is the world it was
\* entered with.
NoFrame ==
  [routine |-> "none", pc |-> "idle", i |-> 0, snapshot |-> IdleWorld,
   positions |-> IdleWorld.q, entry |-> IdleWorld, peer |-> NoPeer, moved |-> FALSE]

\* The three Jacobians that restore the world inside the loop.
LinearJacobianRoutines ==
  {"bruteForceContactPositionJacobian",
   "bruteForceContactForceDirectionJacobian",
   "bruteForceContactForceJacobian"}

PerturbedRoutines ==
  {"bruteForcePerturbedContactPosition",
   "bruteForcePerturbedContactNormal",
   "bruteForcePerturbedContactForceDirection"}

\* Where a routine goes after a peer lookup: on with the peer, or, the peer
\* being garbage, on with it or down when it is dereferenced.
AfterPeer(peer, pc) == IF peer = GarbagePeer THEN {pc, "crashed"} ELSE {pc}

\* EPS of the three contact Jacobians (1e-6) and of the constraint-forces
\* Jacobian (1e-7), in units of 1e-7.
PositionEps == 10

ConstraintForcesEps == 1

\* What neural::forwardPass(world, true) leaves of the world: it re-runs
\* collision and the LCP and builds a snapshot; positions, velocities and
\* forces are as it found them.
forwardPassWorld(w) == w

\* Each column is perturbed on top of the world the last one left.
JacobianLoopWorld_Accumulates(f, w) ==
  setPositions(w, Perturbed(w.q, f.i, PositionEps))

\* The world after the loop body of a position Jacobian: restore, perturb.
JacobianLoopWorld(f, w) ==
  setPositions(restore(f.snapshot, w), Perturbed(f.positions, f.i, PositionEps))

\* The routine returns without the closing restore.
JacobianReturnWorld_NoRestore(f, w) == w

\* The world a brute-force Jacobian returns with: the closing restore.
JacobianReturnWorld(f, w) == restore(f.snapshot, w)

\* The perturbed position is left in place.
bruteForcePerturbedWorld_NoRestore(w, skel, dofIndex, eps) ==
  setDofPosition(w, skel, dofIndex, eps)

\* The world bruteForcePerturbedContactPosition/Normal/ForceDirection and
\* bruteForceEdges (past its early return) leave behind.
bruteForcePerturbedWorld(w, skel, dofIndex, eps) ==
  LET snapshot == RestorableSnapshot(w)
      perturbed == setDofPosition(w, skel, dofIndex, eps)
  IN  restore(snapshot, perturbed)

\* The world bruteForceScrewAxis leaves behind: rotate is moved and put back.
bruteForceScrewAxisWorld(w, rotate, eps) ==
  LET originalPos == w.q[rotate + 1]
      perturbed == setPositions(w, [w.q EXCEPT ![rotate + 1] = originalPos + eps])
  IN  setPositions(perturbed, [perturbed.q EXCEPT ![rotate + 1] = originalPos])

(***************************************************************************)
(* DantzigBoxedLcpSolver::solve.                                           *)
(***************************************************************************)
\* The largest problem size solve is called with.
MaxN == 10

\* What the call of dSolveLCP does: it returns a boolean or throws
\* something (a std::exception, or a value of any other type).
DSolveLCPOutcomes ==
  {[kind |-> "returns", value |-> v, what |-> "none"] : v \in BOOLEAN}
    \cup {[kind |-> "throws", value |-> FALSE, what |-> w] :
             w \in {"std::exception", "int", "other"}}

\* No call of the solver has been made.
NoSolve ==
  [pc |-> "idle", n |-> 0, nub |-> 0, earlyTermination |-> FALSE,
   outcome |-> [kind |-> "returns", value |-> FALSE, what |-> "none"],
   result |-> FALSE, escaped |-> FALSE]

\* The handler is catch (const std::exception&): anything else escapes.
solve_CatchesStdOnly(n, nub, earlyTermination, outcome) ==
  [pc |-> "returned", n |-> n, nub |-> 0, earlyTermination |-> earlyTermination,
   outcome |-> outcome,
   result |-> IF outcome.kind = "throws" THEN FALSE ELSE outcome.value,
   escaped |-> outcome.kind = "throws" /\ outcome.what # "std::exception"]

\* The handler reports success.
solve_TrueOnThrow(n, nub, earlyTermination, outcome) ==
  [pc |-> "returned", n |-> n, nub |-> 0, earlyTermination |-> earlyTermination,
   outcome |-> outcome,
   result |-> IF outcome.kind = "throws" THEN TRUE ELSE outcome.value,
   escaped |-> FALSE]

\* DantzigBoxedLcpSolver::solve: dSolveLCP is called with w = nullptr and
\* nub = 0 inside try; catch (...) returns false.
solve(n, nub, earlyTermination, outcome) ==
  [pc |-> "returned", n |-> n, nub |-> 0, earlyTermination |-> earlyTermination,
   outcome |-> outcome,
   result |-> IF outcome.kind = "throws" THEN FALSE ELSE outcome.value,
   escaped |-> FALSE]

(***************************************************************************)
(* Skeletons the ancestor test is asked about.  A skeleton is a forest of  *)
(* joints, each with one child body (numbered like the joint); joint j     *)
(* hangs from the body of joint parent[j] < j, or is a root (parent 0).    *)
(* Every joint owns zero or more DOFs.                                     *)
(***************************************************************************)
\* The number of joints of the skeletons asked about.
MaxJoints == 3

\* The numbers of DOFs a joint owns: a weld, a hinge, a universal joint.
JointDofCounts == {0, 1, 2}

TreeJoints == 1 .. MaxJoints

\* Shapes: the parent of each joint, the skeleton of each root, the number
\* of DOFs of each joint.
TreeShapes ==
  {[parent |-> p, rootSkel |-> r, numDofs |-> n] :
     p \in {f \in [TreeJoints -> 0 .. MaxJoints - 1] : \A j \in TreeJoints : f[j] < j},
     r \in [TreeJoints -> {"a", "b"}],
     n \in [TreeJoints -> JointDofCounts]}

RECURSIVE RootOf(_, _)
RootOf(shape, j) == IF shape.parent[j] = 0 THEN j ELSE RootOf(shape, shape.parent[j])

\* joint->getSkeleton()->getName()
SkelOf(shape, j) == shape.rootSkel[RootOf(shape, j)]

\* joint->getTreeIndex(): the trees of a skeleton are numbered in order.
TreeIndexOf(shape, j) ==
  Cardinality({r \in TreeJoints : /\ shape.parent[r] = 0
                                  /\ r < RootOf(shape, j)
                                  /\ shape.rootSkel[r] = SkelOf(shape, j)})

RECURSIVE DofsBefore(_, _, _)
DofsBefore(shape, j, k) ==
  IF k >= j THEN 0
  ELSE (IF RootOf(shape, k) = RootOf(shape, j) THEN shape.numDofs[k] ELSE 0)
         + DofsBefore(shape, j, k + 1)

\* joint->getIndexInTree(0): the DOFs of a tree are numbered joint by
\* joint, parents first.  A joint without DOFs has no DOF 0: zeroDofIndex
\* is what the library answers for it.
IndexInTree0Of(shape, j, zeroDofIndex) ==
  IF shape.numDofs[j] = 0 THEN zeroDofIndex ELSE DofsBefore(shape, j, 1)

\* The tables of a shape, as the ancestor tests read them.
TreeOf(shape, zeroDofIndex) ==
  [skel |-> [j \in TreeJoints |-> SkelOf(shape, j)],
   tree |-> [j \in TreeJoints |-> TreeIndexOf(shape, j)],
   parentBody |-> shape.parent,
   parentJoint |-> [b \in TreeJoints |-> b],
   indexInTree0 |-> [j \in TreeJoints |-> IndexInTree0Of(shape, j, zeroDofIndex)]]

\* What getIndexInTree(0) may answer for a joint without DOFs.
ZeroDofIndices == 0 .. MaxJoints

\* No question has been asked.
NoQuery ==
  [pc |-> "idle", shape |-> [parent |-> <<>>, rootSkel |-> <<>>, numDofs |-> <<>>],
   zeroDofIndex |-> 0, dofJoint |-> NoJoint, node |-> NoBody, result |-> FALSE]

(***************************************************************************)
(* One call of a per-DOF query, for the state machines that look at a      *)
(* single call: the function, its DOF, the values it reads and its result. *)
(***************************************************************************)
NoCall ==
  [pc |-> "idle", fn |-> "none", dof |-> 0, type |-> "NONE", mIndex |-> 0,
   normal |-> Zero3, normalGradient |-> Zero3, result |-> Zero3]

\* No ReferentialSkeleton has been built.
NoReferentialSkeleton == [mBodyNodes |-> <<>>, mDofs |-> <<>>, mIndexMap |-> <<>>]

(***************************************************************************)
(* ReferentialSkeleton: the list of referenced body nodes, the list of     *)
(* referenced DOFs and the index map from a body node to its place in the  *)
(* first list and the places of its joint's DOFs in the second.  Indices   *)
(* are zero-based as in the source; the sequences are one-based.           *)
(***************************************************************************)
INVALID_INDEX == 0 - 1

NumRefBodies == 2

MaxLocalDofs == 2

MaxRegistered == 5

RefBodyNodes == 1 .. NumRefBodies

\* _bn->getParentJoint()->getNumDofs(): joints of one DOF up to MaxLocalDofs.
getNumDofsOfParentJoint(bn) == ((bn - 1) % MaxLocalDofs) + 1

\* A DOF is its child body node and its index in that body's parent joint.
DegreesOfFreedom ==
  {dof \in RefBodyNodes \X (0 .. (MaxLocalDofs - 1)) :
     dof[2] < getNumDofsOfParentJoint(dof[1])}

getChildBodyNode(dof) == dof[1]

getIndexInJoint(dof) == dof[2]

\* std::vector::resize(n, INVALID_INDEX) on a vector not longer than n
resize(v, n) == v \o [i \in 1 .. (n - Len(v)) |-> INVALID_INDEX]

\* std::vector::erase(begin() + idx)
erase(v, idx) == SubSeq(v, 1, idx) \o SubSeq(v, idx + 2, Len(v))

\* mIndexMap[bn] = indexing
IndexMapPut(m, bn, indexing) ==
  [b \in DOMAIN m \cup {bn} |-> IF b = bn THEN indexing ELSE m[b]]

\* mIndexMap.erase(it)
IndexMapErase(m, bn) == [b \in DOMAIN m \ {bn} |-> m[b]]

\* A variant that refers to the body node once and stores its indexing.
registerDegreeOfFreedom_Stored(rs, dof) ==
  LET bn == getChildBodyNode(dof)
      localIndex == getIndexInJoint(dof)
  IN  IF bn \notin DOMAIN rs.mIndexMap
        THEN [rs EXCEPT
                !.mBodyNodes = Append(@, bn),
                !.mDofs = Append(@, dof),
                !.mIndexMap =
                   IndexMapPut(@, bn,
                     [mBodyNodeIndex |-> Len(rs.mBodyNodes),
                      mDofIndices |->
                        [resize(<<>>, localIndex + 1)
                           EXCEPT ![localIndex + 1] = Len(rs.mDofs)]])]
        ELSE LET indexing == rs.mIndexMap[bn]
                 grown == IF Len(indexing.mDofIndices) < localIndex + 1
                            THEN resize(indexing.mDofIndices, localIndex + 1)
                            ELSE indexing.mDofIndices
             IN  [rs EXCEPT
                    !.mDofs = Append(@, dof),
                    !.mIndexMap[bn].mDofIndices =
                       [grown EXCEPT ![localIndex + 1] = Len(rs.mDofs)]]

\* registerDegreeOfFreedom(_dof): a body node that the index map does not
\* know is pushed twice, and the indexing built for it is a local that is
\* dropped at the end of the branch.
registerDegreeOfFreedom(rs, dof) ==
  LET bn == getChildBodyNode(dof)
      localIndex == getIndexInJoint(dof)
  IN  IF bn \notin DOMAIN rs.mIndexMap
        THEN [rs EXCEPT
                !.mBodyNodes = Append(Append(@, bn), bn),
                !.mDofs = Append(@, dof)]
        ELSE LET indexing == rs.mIndexMap[bn]
                 grown == IF Len(indexing.mDofIndices) < localIndex + 1
                            THEN resize(indexing.mDofIndices, localIndex + 1)
                            ELSE indexing.mDofIndices
             IN  [rs EXCEPT
                    !.mDofs = Append(@, dof),
                    !.mIndexMap[bn].mDofIndices =
                       [grown EXCEPT ![localIndex + 1] = Len(rs.mDofs)]]

\* registerBodyNode(_bn): the loop over the DOFs of the parent joint, from i.
RECURSIVE registerBodyNodeFrom(_, _, _)
registerBodyNodeFrom(rs, bn, i) ==
  IF i < getNumDofsOfParentJoint(bn)
    THEN registerBodyNodeFrom(registerDegreeOfFreedom(rs, <<bn, i>>), bn, i + 1)
    ELSE rs

registerBodyNode(rs, bn) == registerBodyNodeFrom(rs, bn, 0)

\* The loop that gives the DOFs from place i on their new places.
RECURSIVE ReindexDofsFrom(_, _, _)
ReindexDofsFrom(m, mDofs, i) ==
  IF i < Len(mDofs)
    THEN LET dof == mDofs[i + 1]
             bn == getChildBodyNode(dof)
         IN  ReindexDofsFrom(
               IF bn \in DOMAIN m
                 THEN [m EXCEPT ![bn].mDofIndices[getIndexInJoint(dof) + 1] = i]
                 ELSE IndexMapPut(m, bn, [mBodyNodeIndex |-> INVALID_INDEX,
                                          mDofIndices |-> <<>>]),
               mDofs, i + 1)
    ELSE m

\* The loop that gives the body nodes from place i on their new places.
RECURSIVE ReindexBodyNodesFrom(_, _, _)
ReindexBodyNodesFrom(m, mBodyNodes, i) ==
  IF i < Len(mBodyNodes)
    THEN LET bn == mBodyNodes[i + 1]
         IN  ReindexBodyNodesFrom(
               IF bn \in DOMAIN m
                 THEN [m EXCEPT ![bn].mBodyNodeIndex = i]
                 ELSE IndexMapPut(m, bn, [mBodyNodeIndex |-> i,
                                          mDofIndices |-> <<>>]),
               mBodyNodes, i + 1)
    ELSE m

RECURSIVE unregisterBodyNode(_, _)
\* unregisterDegreeOfFreedom(_bn, _localIndex, removeBnIfEmpty)
unregisterDegreeOfFreedom(rs, bn, localIndex, removeBnIfEmpty) ==
  IF \/ bn \notin DOMAIN rs.mIndexMap
     \/ Len(rs.mIndexMap[bn].mDofIndices) <= localIndex
     \/ rs.mIndexMap[bn].mDofIndices[localIndex + 1] = INVALID_INDEX
    THEN rs
    ELSE LET dofIndex == rs.mIndexMap[bn].mDofIndices[localIndex + 1]
             erased == erase(rs.mDofs, dofIndex)
             cleared == [rs.mIndexMap EXCEPT
                           ![bn].mDofIndices[localIndex + 1] = INVALID_INDEX]
             reindexed == ReindexDofsFrom(cleared, erased, dofIndex)
             after == [rs EXCEPT !.mDofs = erased, !.mIndexMap = reindexed]
             removeBn == \A i \in DOMAIN reindexed[bn].mDofIndices :
                           reindexed[bn].mDofIndices[i] = INVALID_INDEX
         IN  IF removeBnIfEmpty /\ removeBn
               THEN unregisterBodyNode(after, bn)
               ELSE after

\* The loop of unregisterBodyNode over the body node's DOF indices, from i.
RECURSIVE UnregisterDofsFrom(_, _, _)
UnregisterDofsFrom(rs, bn, i) ==
  IF i < Len(rs.mIndexMap[bn].mDofIndices)
    THEN UnregisterDofsFrom(
           IF rs.mIndexMap[bn].mDofIndices[i + 1] # INVALID_INDEX
             THEN unregisterDegreeOfFreedom(rs, bn, i, FALSE)
             ELSE rs,
           bn, i + 1)
    ELSE rs

\* unregisterBodyNode(_bn)
unregisterBodyNode(rs, bn) ==
  IF bn \notin DOMAIN rs.mIndexMap
    THEN rs
    ELSE LET emptied == UnregisterDofsFrom(rs, bn, 0)
             bnIndex == emptied.mIndexMap[bn].mBodyNodeIndex
             erased == erase(emptied.mBodyNodes, bnIndex)
         IN  [emptied EXCEPT
                !.mBodyNodes = erased,
                !.mIndexMap =
                   IndexMapErase(ReindexBodyNodesFrom(@, erased, bnIndex), bn)]

\* getIndexOf(const BodyNode*)
getIndexOf_BodyNode(rs, bn) ==
  IF bn \notin DOMAIN rs.mIndexMap
    THEN INVALID_INDEX
    ELSE rs.mIndexMap[bn].mBodyNodeIndex

\* getIndexOf(const DegreeOfFreedom*)
getIndexOf_DegreeOfFreedom(rs, dof) ==
  LET bn == getChildBodyNode(dof)
      localIndex == getIndexInJoint(dof)
  IN  IF bn \notin DOMAIN rs.mIndexMap
        THEN INVALID_INDEX
      ELSE IF \/ Len(rs.mIndexMap[bn].mDofIndices) <= localIndex
              \/ rs.mIndexMap[bn].mDofIndices[localIndex + 1] = INVALID_INDEX
        THEN INVALID_INDEX
      ELSE rs.mIndexMap[bn].mDofIndices[localIndex + 1]

getNumBodyNodes(rs) == Len(rs.mBodyNodes)

getNumDofs(rs) == Len(rs.mDofs)

\* getDof(_idx), for _idx < getNumDofs()
getDof(rs, idx) == rs.mDofs[idx + 1]

\* Gradients near the threshold are counted in units of 5e-7, so that the
\* squared norm 1e-12 is 4 and vectors on both sides of it are integers.
MaxGradient == 2

SquaredNormThreshold == 4

SmallGradients ==
  {<<x, y, z>> : x \in -MaxGradient .. MaxGradient, y \in -MaxGradient .. MaxGradient,
                z \in -MaxGradient .. MaxGradient}

DofContactTypes ==
  {"NONE", "UNSUPPORTED", "VERTEX", "FACE", "VERTEX_FACE_SELF_COLLISION",
   "EDGE_EDGE_SELF_COLLISION", "EDGE_A", "EDGE_B"}

(***************************************************************************)
(* The state machine.  The constraint comes out of the LCP build; the      *)
(* differentiable constraint is constructed from it; afterwards collision  *)
(* detection may overwrite the ContactConstraint's Contact record and the  *)
(* world may move.                                                         *)
(***************************************************************************)
Init ==
  /\ constraint \in ContactConstraints \cup OtherConstraints
  /\ dcc = NotConstructed
  /\ pose \in Poses
  /\ world = IdleWorld
  /\ frame = NoFrame
  /\ peerId = Unassigned(0, FALSE)
  /\ solver = NoSolve
  /\ query = NoQuery
  /\ call = NoCall
  /\ refSkel = NoReferentialSkeleton

\* DifferentiableContactConstraint::DifferentiableContactConstraint
Construct(index) ==
  /\ dcc' = NewDifferentiableContactConstraint(constraint, index)
  /\ UNCHANGED <<constraint, pose, world, frame, peerId, solver, query, call, refSkel>>

\* Collision detection writes another Contact into the ContactConstraint.
DetectContact(ct) ==
  /\ constraint.isContact
  /\ ct # constraint.contact
  /\ constraint' = [constraint EXCEPT !.contact = ct]
  /\ UNCHANGED <<dcc, pose, world, frame, peerId, solver, query, call, refSkel>>

\* world->setPositions: the world moves to another configuration.
SetPositions(p) ==
  /\ p # pose
  /\ pose' = p
  /\ UNCHANGED <<constraint, dcc, world, frame, peerId, solver, query, call, refSkel>>

Next ==
  \/ \E index \in Indices : Construct(index)
  \/ \E ct \in Contacts : DetectContact(ct)
  \/ \E p \in Poses : SetPositions(p)

Spec == Init /\ [][Next]_vars

(***************************************************************************)
(* The state machine the constraint-forces Jacobians are read in: contact  *)
(* constraints between bodies of one chain, of two branches, of two trees  *)
(* and of two skeletons, constructed with every index, in every pose.      *)
(***************************************************************************)
JacobianBodyPairs == {<<3, 6>>, <<6, 3>>, <<3, 4>>, <<1, 3>>, <<2, 5>>, <<4, 6>>}

InitJac ==
  /\ constraint \in {c \in ContactConstraints : <<c.bodyA, c.bodyB>> \in JacobianBodyPairs}
  /\ dcc = NotConstructed
  /\ pose \in Poses
  /\ world = IdleWorld
  /\ frame = NoFrame
  /\ peerId = Unassigned(0, FALSE)
  /\ solver = NoSolve
  /\ query = NoQuery
  /\ call = NoCall
  /\ refSkel = NoReferentialSkeleton

NextJac ==
  \/ \E index \in Indices : Construct(index)
  \/ \E p \in Poses : SetPositions(p)

SpecJac == InitJac /\ [][NextJac]_vars

(***************************************************************************)
(* The state machine of one getContactForceGradient call whose normal      *)
(* gradient is small: the rotation axis of the DOF is almost parallel to   *)
(* the normal (or to the edge it turns).                                   *)
(***************************************************************************)
InitGrad ==
  /\ constraint = [isContact |-> TRUE, bodyA |-> 3, bodyB |-> 6,
                   contact |-> Contact("EDGE_EDGE", GeomSkew), skels |-> {}]
  /\ dcc = NotConstructed
  /\ pose = 1
  /\ world = IdleWorld
  /\ frame = NoFrame
  /\ peerId = Unassigned(0, FALSE)
  /\ solver = NoSolve
  /\ query = NoQuery
  /\ refSkel = NoReferentialSkeleton
  /\ \E type \in DofContactTypes, index \in Indices, n \in {UnitX, UnitZ},
        g \in SmallGradients :
       \* the normal gradient getContactNormalGradient gives for the type
       /\ type \in {"VERTEX", "NONE", "UNSUPPORTED"} => g = Zero3
       /\ type \in {"FACE", "VERTEX_FACE_SELF_COLLISION", "EDGE_EDGE_SELF_COLLISION"}
            => Dot(g, n) = 0
       /\ call = [NoCall EXCEPT !.pc = "called", !.fn = "getContactForceGradient",
                                !.type = type, !.mIndex = index, !.normal = n,
                                !.normalGradient = g]

\* getContactForceGradient(dof)
GetContactForceGradient ==
  /\ call.pc = "called"
  /\ call' = [call EXCEPT
                !.pc = "returned",
                !.result = ContactForceGradientAt(call.type, call.mIndex, call.normal,
                                                  call.normalGradient,
                                                  SquaredNormThreshold)]
  /\ UNCHANGED <<constraint, dcc, pose, world, frame, peerId, solver, query, refSkel>>

NextGrad == GetContactForceGradient

SpecGrad == InitGrad /\ [][NextGrad]_vars

(***************************************************************************)
(* The state machine of the finite-difference validator.                   *)
(***************************************************************************)
Returnable == frame.pc \in {"idle", "returned"}

\* The constraints the validator is run on.
ValidatedConstraints ==
  {c \in ContactConstraints : c.bodyA = 3 /\ c.bodyB = 6 /\ c.contact.geom = GeomSkew}

InitFD ==
  /\ constraint \in ValidatedConstraints
  /\ dcc = NewDifferentiableContactConstraint(constraint, 0)
  /\ pose = 1
  /\ world \in Worlds
  /\ frame = NoFrame
  /\ \E o \in Offsets, u \in BOOLEAN : peerId = Unassigned(o, u)
  /\ solver = NoSolve
  /\ query = NoQuery
  /\ call = NoCall
  /\ refSkel = NoReferentialSkeleton

\* setOffsetIntoWorld
SetOffsetIntoWorld(o, u) ==
  /\ Returnable
  /\ peerId' = setOffsetIntoWorld(o, u)
  /\ peerId' # peerId
  /\ UNCHANGED <<constraint, dcc, pose, world, frame, solver, query, call, refSkel>>

\* bruteForceContactPositionJacobian, ...ForceDirectionJacobian,
\* ...ForceJacobian up to the loop.
CallLinearJacobian(r) ==
  /\ Returnable
  /\ frame' = [routine |-> r, pc |-> "loop", i |-> 0,
               snapshot |-> RestorableSnapshot(world), positions |-> world.q,
               entry |-> world, peer |-> NoPeer, moved |-> FALSE]
  /\ UNCHANGED <<constraint, dcc, pose, world, peerId, solver, query, call, refSkel>>

\* One iteration of their loop.
StepLinearJacobian ==
  /\ frame.pc = "loop"
  /\ frame.routine \in LinearJacobianRoutines
  /\ frame.i < NumDofs
  /\ world' = forwardPassWorld(JacobianLoopWorld(frame, world))
  /\ \E bs \in BackpropSnapshots :
       LET peer == getPeerConstraint(peerId, bs)
       IN  \E pc \in AfterPeer(peer, "loop") :
             frame' = [frame EXCEPT !.i = @ + 1, !.peer = peer, !.pc = pc,
                                    !.moved = TRUE]
  /\ UNCHANGED <<constraint, dcc, pose, peerId, solver, query, call, refSkel>>

\* The closing restore and the return.
ReturnLinearJacobian ==
  /\ frame.pc = "loop"
  /\ frame.routine \in LinearJacobianRoutines
  /\ frame.i = NumDofs
  /\ world' = JacobianReturnWorld(frame, world)
  /\ frame' = [frame EXCEPT !.pc = "returned"]
  /\ UNCHANGED <<constraint, dcc, pose, peerId, solver, query, call, refSkel>>

\* bruteForceConstraintForcesJacobian up to the loop: the snapshot, the
\* forward pass on the unperturbed world and its peer.
CallConstraintForcesJacobian ==
  /\ Returnable
  /\ \E bs \in BackpropSnapshots :
       LET peer == getPeerConstraint(peerId, bs)
       IN  \E pc \in AfterPeer(peer, "loop") :
             frame' = [routine |-> "bruteForceConstraintForcesJacobian", pc |-> pc,
                       i |-> 0, snapshot |-> RestorableSnapshot(world),
                       positions |-> world.q, entry |-> world, peer |-> peer,
                       moved |-> FALSE]
  /\ UNCHANGED <<constraint, dcc, pose, world, peerId, solver, query, call, refSkel>>

\* One iteration of its loop: no restore, the tweak starts from the
\* original positions.
StepConstraintForcesJacobian ==
  /\ frame.pc = "loop"
  /\ frame.routine = "bruteForceConstraintForcesJacobian"
  /\ frame.i < NumDofs
  /\ world' = forwardPassWorld(
                setPositions(world, Perturbed(frame.positions, frame.i,
                                              ConstraintForcesEps)))
  /\ \E bs \in BackpropSnapshots :
       LET peer == getPeerConstraint(peerId, bs)
       IN  \E pc \in AfterPeer(peer, "loop") :
             frame' = [frame EXCEPT !.i = @ + 1, !.peer = peer, !.pc = pc,
                                    !.moved = TRUE]
  /\ UNCHANGED <<constraint, dcc, pose, peerId, solver, query, call, refSkel>>

ReturnConstraintForcesJacobian ==
  /\ frame.pc = "loop"
  /\ frame.routine = "bruteForceConstraintForcesJacobian"
  /\ frame.i = NumDofs
  /\ world' = JacobianReturnWorld(frame, world)
  /\ frame' = [frame EXCEPT !.pc = "returned"]
  /\ UNCHANGED <<constraint, dcc, pose, peerId, solver, query, call, refSkel>>

\* bruteForcePerturbedContactPosition/Normal/ForceDirection, whole: the peer
\* is dereferenced after the restore.
CallPerturbed(r, skel, dofIndex, eps) ==
  /\ Returnable
  /\ world' = bruteForcePerturbedWorld(world, skel, dofIndex, eps)
  /\ \E bs \in BackpropSnapshots :
       LET peer == getPeerConstraint(peerId, bs)
       IN  \E pc \in AfterPeer(peer, "returned") :
             frame' = [routine |-> r, pc |-> pc, i |-> 0,
                       snapshot |-> RestorableSnapshot(world), positions |-> world.q,
                       entry |-> world, peer |-> peer, moved |-> TRUE]
  /\ UNCHANGED <<constraint, dcc, pose, peerId, solver, query, call, refSkel>>

\* bruteForceScrewAxis, whole; rotate is a 0-based world index.
CallScrewAxis(rotate, eps) ==
  /\ Returnable
  /\ world' = bruteForceScrewAxisWorld(world, rotate, eps)
  /\ frame' = [routine |-> "bruteForceScrewAxis", pc |-> "returned", i |-> 0,
               snapshot |-> IdleWorld, positions |-> IdleWorld.q,
               entry |-> world, peer |-> NoPeer, moved |-> TRUE]
  /\ UNCHANGED <<constraint, dcc, pose, peerId, solver, query, call, refSkel>>

\* bruteForceEdges, whole: it returns zero edges before touching the world
\* unless the contact is EDGE_EDGE.
CallEdges(skel, dofIndex, eps) ==
  /\ Returnable
  /\ IF getContactType(Cur) # "EDGE_EDGE"
       THEN /\ world' = world
            /\ frame' = [routine |-> "bruteForceEdges", pc |-> "returned", i |-> 0,
                         snapshot |-> IdleWorld, positions |-> IdleWorld.q,
                         entry |-> world, peer |-> NoPeer, moved |-> FALSE]
       ELSE /\ world' = bruteForcePerturbedWorld(world, skel, dofIndex, eps)
            /\ \E bs \in BackpropSnapshots :
                 LET peer == getPeerConstraint(peerId, bs)
                 IN  \E pc \in AfterPeer(peer, "returned") :
                       frame' = [routine |-> "bruteForceEdges", pc |-> pc, i |-> 0,
                                 snapshot |-> RestorableSnapshot(world),
                                 positions |-> world.q, entry |-> world,
                                 peer |-> peer, moved |-> TRUE]
  /\ UNCHANGED <<constraint, dcc, pose, peerId, solver, query, call, refSkel>>

\* The DOFs a caller names by skeleton and index.
SkelDofIndices == {x \in Skels \X (0 .. NumDofs - 1) : x[2] < Len(SkelDofs(x[1]))}

NextFD ==
  \/ \E o \in Offsets, u \in BOOLEAN : SetOffsetIntoWorld(o, u)
  \/ \E r \in LinearJacobianRoutines : CallLinearJacobian(r)
  \/ StepLinearJacobian
  \/ ReturnLinearJacobian
  \/ CallConstraintForcesJacobian
  \/ StepConstraintForcesJacobian
  \/ ReturnConstraintForcesJacobian
  \/ \E r \in PerturbedRoutines, sd \in SkelDofIndices, eps \in Epsilons :
       CallPerturbed(r, sd[1], sd[2], eps)
  \/ \E rotate \in 0 .. NumDofs - 1, eps \in Epsilons : CallScrewAxis(rotate, eps)
  \/ \E sd \in SkelDofIndices, eps \in Epsilons : CallEdges(sd[1], sd[2], eps)

SpecFD == InitFD /\ [][NextFD]_vars

(***************************************************************************)
(* The state machine of the boxed LCP solver: solve is called again and    *)
(* again; the outcome of dSolveLCP is the environment's.                   *)
(***************************************************************************)
InitLcp ==
  /\ constraint = [isContact |-> FALSE, bodyA |-> NoBody, bodyB |-> NoBody,
                   contact |-> NoContact, skels |-> Skels]
  /\ dcc = NotConstructed
  /\ pose = 1
  /\ world = IdleWorld
  /\ frame = NoFrame
  /\ peerId = Unassigned(0, FALSE)
  /\ solver = NoSolve
  /\ query = NoQuery
  /\ call = NoCall
  /\ refSkel = NoReferentialSkeleton

\* DantzigBoxedLcpSolver::solve
Solve(n, nub, earlyTermination, outcome) ==
  /\ solver' = solve(n, nub, earlyTermination, outcome)
  /\ UNCHANGED <<constraint, dcc, pose, world, frame, peerId, query, call, refSkel>>

NextLcp ==
  \E n \in 0 .. MaxN, nub \in 0 .. MaxN, earlyTermination \in BOOLEAN,
     outcome \in DSolveLCPOutcomes :
    /\ nub <= n
    /\ Solve(n, nub, earlyTermination, outcome)

SpecLcp == InitLcp /\ [][NextLcp]_vars

(***************************************************************************)
(* The state machine of the per-DOF queries on constraints of both kinds.  *)
(***************************************************************************)
InitCall ==
  /\ constraint \in OtherConstraints \cup ValidatedConstraints
  /\ \E index \in Indices : dcc = NewDifferentiableContactConstraint(constraint, index)
  /\ pose = 1
  /\ world = IdleWorld
  /\ frame = NoFrame
  /\ peerId = Unassigned(0, FALSE)
  /\ solver = NoSolve
  /\ query = NoQuery
  /\ call = NoCall
  /\ refSkel = NoReferentialSkeleton

\* getDofContactType(dof), getContactPositionGradient(dof),
\* getContactNormalGradient(dof), getContactForceGradient(dof)
CallDofQuery(fn, dof) ==
  /\ call.pc # "crashed"
  /\ \E out \in QueryOutcomes(Cur, fn, dof) :
       call' = [NoCall EXCEPT !.pc = out.pc, !.fn = fn, !.dof = dof,
                             !.mIndex = dcc.mIndex, !.result = out.result]
  /\ UNCHANGED <<constraint, dcc, pose, world, frame, peerId, solver, query, refSkel>>

NextCall == \E fn \in DofQueries, dof \in Dofs : CallDofQuery(fn, dof)

SpecCall == InitCall /\ [][NextCall]_vars

(***************************************************************************)
(* The state machine of the ancestor test: a question is drawn (a          *)
(* skeleton, a DOF of one of its joints, a body) and isParent answers it.  *)
(***************************************************************************)
InitTree ==
  /\ constraint = [isContact |-> FALSE, bodyA |-> NoBody, bodyB |-> NoBody,
                   contact |-> NoContact, skels |-> Skels]
  /\ dcc = NotConstructed
  /\ pose = 1
  /\ world = IdleWorld
  /\ frame = NoFrame
  /\ peerId = Unassigned(0, FALSE)
  /\ solver = NoSolve
  /\ call = NoCall
  /\ refSkel = NoReferentialSkeleton
  /\ \E shape \in TreeShapes, z \in ZeroDofIndices, dj \in TreeJoints, node \in TreeJoints :
       /\ shape.numDofs[dj] > 0
       /\ \A j \in TreeJoints : shape.parent[j] # 0 => shape.rootSkel[j] = "a"
       /\ query = [pc |-> "called", shape |-> shape, zeroDofIndex |-> z,
                   dofJoint |-> dj, node |-> node, result |-> FALSE]

\* isParent(dof, node)
IsParent ==
  /\ query.pc = "called"
  /\ query' = [query EXCEPT
                 !.pc = "returned",
                 !.result = isParentOf(TreeOf(query.shape, query.zeroDofIndex),
                                       query.dofJoint, query.node)]
  /\ UNCHANGED <<constraint, dcc, pose, world, frame, peerId, solver, call, refSkel>>

NextTree == IsParent

SpecTree == InitTree /\ [][NextTree]_vars

(***************************************************************************)
(* The state machine of the walks: a call of either isParent overload on   *)
(* a tree of the family, one turn of its loop at a time.  For the          *)
(* DOF-versus-DOF overload node is the child DOF's joint.                   *)
(***************************************************************************)
Overloads == {"isParent(dof, node)", "isParent(parent, child)"}

InitWalk ==
  /\ constraint = [isContact |-> FALSE, bodyA |-> NoBody, bodyB |-> NoBody,
                   contact |-> NoContact, skels |-> Skels]
  /\ dcc = NotConstructed
  /\ pose = 1
  /\ world = IdleWorld
  /\ frame = NoFrame
  /\ peerId = Unassigned(0, FALSE)
  /\ solver = NoSolve
  /\ call = NoCall
  /\ refSkel = NoReferentialSkeleton
  /\ \E shape \in TreeShapes, z \in {0, MaxJoints}, overload \in Overloads,
        dj \in TreeJoints, node \in TreeJoints, di \in {0, 1}, ni \in {0, 1} :
       /\ \A j \in TreeJoints : shape.parent[j] # 0 => shape.rootSkel[j] = "a"
       \* at most one weld joint, answering the least or the greatest index
       /\ Cardinality({j \in TreeJoints : shape.numDofs[j] = 0}) <= 1
       /\ di < shape.numDofs[dj]
       /\ IF overload = "isParent(parent, child)"
            THEN ni < shape.numDofs[node]
            ELSE ni = 0
       /\ query = [pc |-> "called", overload |-> overload, shape |-> shape,
                   zeroDofIndex |-> z, dofJoint |-> dj, dofIndex |-> di,
                   node |-> node, nodeIndex |-> ni, joint |-> NoJoint,
                   result |-> FALSE]

\* Either overload up to its loop: the same-joint answer of the
\* DOF-versus-DOF overload, the skeleton and tree exit, the index exit.
EnterIsParent ==
  /\ query.pc = "called"
  /\ LET T == TreeOf(query.shape, query.zeroDofIndex)
         start == T.parentJoint[query.node]
     IN  query' =
           IF query.overload = "isParent(parent, child)" /\ query.dofJoint = start
             THEN [query EXCEPT !.pc = "returned",
                                !.result = (query.dofIndex # query.nodeIndex)]
           ELSE IF T.skel[query.dofJoint] # T.skel[start]
                   \/ T.tree[query.dofJoint] # T.tree[start]
             THEN [query EXCEPT !.pc = "returned", !.result = FALSE]
           ELSE IF T.indexInTree0[query.dofJoint] > T.indexInTree0[start]
             THEN [query EXCEPT !.pc = "returned", !.result = FALSE]
           ELSE [query EXCEPT !.pc = "walking", !.joint = start]
  /\ UNCHANGED <<constraint, dcc, pose, world, frame, peerId, solver, call, refSkel>>

\* One turn of while (true).
WalkIteration ==
  /\ query.pc = "walking"
  /\ LET T == TreeOf(query.shape, query.zeroDofIndex)
     IN  query' =
           IF query.joint = query.dofJoint
             THEN [query EXCEPT !.pc = "returned", !.result = TRUE]
           ELSE IF T.parentBody[query.joint] = NoBody
                   \/ T.parentJoint[T.parentBody[query.joint]] = NoJoint
             THEN [query EXCEPT !.pc = "returned", !.result = FALSE]
           ELSE [query EXCEPT !.joint = isParentUp(T, query.joint)]
  /\ UNCHANGED <<constraint, dcc, pose, world, frame, peerId, solver, call, refSkel>>

NextWalk == EnterIsParent \/ WalkIteration

\* The call runs on: nothing suspends it.
SpecWalk == InitWalk /\ [][NextWalk]_vars /\ WF_vars(NextWalk)

(***************************************************************************)
(* The state machine of a ReferentialSkeleton: starting from an empty one, *)
(* body nodes and DOFs are registered and unregistered in any order.       *)
(***************************************************************************)
InitRef ==
  /\ constraint = [isContact |-> FALSE, bodyA |-> NoBody, bodyB |-> NoBody,
                   contact |-> NoContact, skels |-> Skels]
  /\ dcc = NotConstructed
  /\ pose = 1
  /\ world = IdleWorld
  /\ frame = NoFrame
  /\ peerId = Unassigned(0, FALSE)
  /\ solver = NoSolve
  /\ query = NoQuery
  /\ call = NoCall
  /\ refSkel = NoReferentialSkeleton

RegisterBodyNode(bn) ==
  /\ getNumDofs(refSkel) + getNumDofsOfParentJoint(bn) <= MaxRegistered
  /\ refSkel' = registerBodyNode(refSkel, bn)
  /\ UNCHANGED <<constraint, dcc, pose, world, frame, peerId, solver, query, call>>

RegisterDegreeOfFreedom(dof) ==
  /\ getNumDofs(refSkel) < MaxRegistered
  /\ refSkel' = registerDegreeOfFreedom(refSkel, dof)
  /\ UNCHANGED <<constraint, dcc, pose, world, frame, peerId, solver, query, call>>

UnregisterBodyNode(bn) ==
  /\ refSkel' = unregisterBodyNode(refSkel, bn)
  /\ UNCHANGED <<constraint, dcc, pose, world, frame, peerId, solver, query, call>>

UnregisterDegreeOfFreedom(bn, localIndex, removeBnIfEmpty) ==
  /\ refSkel' = unregisterDegreeOfFreedom(refSkel, bn, localIndex, removeBnIfEmpty)
  /\ UNCHANGED <<constraint, dcc, pose, world, frame, peerId, solver, query, call>>

NextRef ==
  \/ \E bn \in RefBodyNodes : RegisterBodyNode(bn)
  \/ \E dof \in DegreesOfFreedom : RegisterDegreeOfFreedom(dof)
  \/ \E bn \in RefBodyNodes : UnregisterBodyNode(bn)
  \/ \E dof \in DegreesOfFreedom, removeBnIfEmpty \in BOOLEAN :
       UnregisterDegreeOfFreedom(dof[1], dof[2], removeBnIfEmpty)

SpecRef == InitRef /\ [][NextRef]_vars

(***************************************************************************)
(* Properties.  The ancestor relation they speak of is the tree's own: a   *)
(* DOF is an ancestor of a body when its joint lies on the path of parent  *)
(* joints from the body to the root of its tree.                           *)
(***************************************************************************)
RECURSIVE JointsAbove(_)
JointsAbove(j) ==
  {j} \cup (IF JointParentBody[j] = NoBody THEN {}
            ELSE JointsAbove(BodyParentJoint[JointParentBody[j]]))

Ancestor(dof, body) ==
  body # NoBody /\ DofJoint[dof] \in JointsAbove(BodyParentJoint[body])

AncA(e, dof) == Ancestor(dof, e.c.bodyA)

AncB(e, dof) == Ancestor(dof, e.c.bodyB)

SupportedTypes == {"VERTEX_FACE", "FACE_VERTEX", "EDGE_EDGE"}

\* A constructed differentiable constraint over a contact constraint.
IsContactRow == dcc.constructed /\ constraint.isContact

\* Some DOF is above A only, some above B only, some above both, some above
\* neither.
AllFourRelations ==
  /\ \E d \in Dofs : AncA(Cur, d) /\ ~AncB(Cur, d)
  /\ \E d \in Dofs : ~AncA(Cur, d) /\ AncB(Cur, d)
  /\ \E d \in Dofs : AncA(Cur, d) /\ AncB(Cur, d)
  /\ \E d \in Dofs : ~AncA(Cur, d) /\ ~AncB(Cur, d)

TruthTable(type, a, b) ==
  IF ~a /\ ~b THEN "NONE"
  ELSE IF a /\ b
    THEN (IF type = "EDGE_EDGE" THEN "EDGE_EDGE_SELF_COLLISION"
          ELSE "VERTEX_FACE_SELF_COLLISION")
  ELSE IF a
    THEN (IF type = "VERTEX_FACE" THEN "VERTEX"
          ELSE IF type = "FACE_VERTEX" THEN "FACE" ELSE "EDGE_B")
  ELSE (IF type = "VERTEX_FACE" THEN "FACE"
        ELSE IF type = "FACE_VERTEX" THEN "VERTEX" ELSE "EDGE_A")

ExpectedMultiple(a, b) == IF a /\ ~b THEN 1 ELSE IF b /\ ~a THEN -1 ELSE 0

C4_UnrelatedDofVanishes ==
  IsContactRow =>
    \A d \in Dofs :
      (~AncA(Cur, d) /\ ~AncB(Cur, d)) =>
        /\ getConstraintForce(Cur, d) = 0
        /\ getContactPositionGradient(Cur, d) = Zero3
        /\ getContactNormalGradient(Cur, d) = Zero3
        /\ getContactForceGradient(Cur, d) = Zero3
        /\ getContactWorldForceGradient(Cur, d) = Zero6
        /\ getEdgeGradient(Cur, d) = ZeroEdgeData

C4_Witness ==
  /\ IsContactRow
  /\ getContactType(Cur) = "EDGE_EDGE"
  /\ \E d \in Dofs :
       /\ ~AncA(Cur, d) /\ ~AncB(Cur, d)
       /\ Dot6(getWorldScrewAxis(Cur, d), getWorldForce(Cur)) # 0
  /\ \E d \in Dofs :
       /\ getContactPositionGradient(Cur, d) # Zero3
       /\ getContactNormalGradient(Cur, d) # Zero3
       /\ getEdgeGradient(Cur, d) # ZeroEdgeData

\* Row positions of a DOF in a list of DOFs.
RowsOf(dofs, d) == {r \in 1 .. Len(dofs) : dofs[r] = d}

\* The lists of skeletons the Jacobians are asked for.
SkelLists == {WorldSkeletons, <<"arm", "box">>, <<"arm">>}

\* Row d of each of the four getConstraintForcesJacobian overloads is zero.
JacobianRowsZero(e, d) ==
  /\ \A r \in RowsOf(WorldDofs, d) : \A c \in 1 .. Len(WorldDofs) :
       getConstraintForcesJacobian(e)[r, c] = 0
  /\ \A skel \in Skels : \A wrt \in Skels :
       \A r \in RowsOf(SkelDofs(skel), d) : \A c \in 1 .. Len(SkelDofs(wrt)) :
         getConstraintForcesJacobianSkelWrt(e, skel, wrt)[r, c] = 0
  /\ \A skels \in SkelLists : \A wrt \in Skels :
       \A r \in RowsOf(SkelsDofs(skels), d) : \A c \in 1 .. Len(SkelDofs(wrt)) :
         getConstraintForcesJacobianSkelsWrt(e, skels, wrt)[r, c] = 0
  /\ \A skels \in SkelLists :
       \A r \in RowsOf(SkelsDofs(skels), d) : \A c \in 1 .. Len(SkelsDofs(skels)) :
         getConstraintForcesJacobianSkels(e, skels)[r, c] = 0

\* No force on a DOF above both bodies.
SelfCollisionForceFree(e, d) ==
  /\ getForceMultiple(e, d) = 0
  /\ getConstraintForce(e, d) = 0
  /\ \A r \in RowsOf(WorldDofs, d) : getConstraintForcesWorld(e)[r] = 0
  /\ \A skel \in Skels :
       \A r \in RowsOf(SkelDofs(skel), d) : getConstraintForces(e, skel)[r] = 0
  /\ JacobianRowsZero(e, d)

\* Classified as a self-collision, the contact point moving with d's screw.
SelfCollisionMoves(e, d) ==
  /\ getDofContactType(e, d)
       \in {"VERTEX_FACE_SELF_COLLISION", "EDGE_EDGE_SELF_COLLISION"}
  /\ getContactPositionGradient(e, d)
       = gradientWrtTheta(getWorldScrewAxis(e, d), getContactWorldPosition(e))

SwapAB(e) == [e EXCEPT !.c.bodyA = e.c.bodyB, !.c.bodyB = e.c.bodyA]

\* C6: exchanging bodies A and B negates getForceMultiple(d) for every DOF
\* and every entry of getConstraintForces (per skeleton and for the world).
C6_SwapNegates ==
  IsContactRow =>
    LET worldTaus == getConstraintForcesWorld(Cur)
        swapped == getConstraintForcesWorld(SwapAB(Cur))
    IN  /\ \A d \in Dofs : getForceMultiple(SwapAB(Cur), d) = -getForceMultiple(Cur, d)
        /\ \A i \in 1 .. Len(WorldDofs) : swapped[i] = -worldTaus[i]
        /\ \A skel \in Skels :
             LET taus == getConstraintForces(Cur, skel)
                 swappedTaus == getConstraintForces(SwapAB(Cur), skel)
             IN  \A i \in 1 .. Len(SkelDofs(skel)) : swappedTaus[i] = -taus[i]

C6_Witness ==
  /\ IsContactRow
  /\ \E i \in 1 .. Len(WorldDofs) :
       /\ getForceMultiple(Cur, WorldDofs[i]) = 1
       /\ getConstraintForcesWorld(Cur)[i] # 0
       /\ getConstraintForcesWorld(SwapAB(Cur))[i] = -getConstraintForcesWorld(Cur)[i]
  /\ \E i \in 1 .. Len(WorldDofs) :
       /\ getForceMultiple(Cur, WorldDofs[i]) = -1
       /\ getConstraintForcesWorld(Cur)[i] # 0

\* Position in the worldTaus's vector of the first DOF of the k-th skeleton,
\* counted from 0.
RECURSIVE SkelOffset(_)
SkelOffset(k) ==
  IF k = 1 THEN 0 ELSE SkelOffset(k - 1) + Len(SkelDofs(WorldSkeletons[k - 1]))

\* C7: getConstraintForces(skel) has one entry per DOF of skel, entry i
\* being getForceMultiple(d_i) * (screw(d_i) . worldForce) =
\* getConstraintForce(d_i), also for a skeleton the constraint does not
\* touch; getConstraintForces(worldTaus) is the concatenation of these vectors
\* in the worldTaus's skeleton order.
C7_ConstraintForces ==
  dcc.constructed =>
    LET worldTaus == getConstraintForcesWorld(Cur)
    IN  /\ \A skel \in Skels :
             LET taus == getConstraintForces(Cur, skel)
             IN  /\ Len(taus) = Len(SkelDofs(skel))
                 /\ \A i \in 1 .. Len(SkelDofs(skel)) :
                      LET d == SkelDofs(skel)[i]
                      IN  /\ taus[i] = getForceMultiple(Cur, d)
                                         * Dot6(getWorldScrewAxis(Cur, d), getWorldForce(Cur))
                          /\ taus[i] = getConstraintForce(Cur, d)
        /\ Len(worldTaus) = Len(WorldDofs)
        /\ \A k \in 1 .. Len(WorldSkeletons) :
             LET taus == getConstraintForces(Cur, WorldSkeletons[k])
             IN  \A i \in 1 .. Len(SkelDofs(WorldSkeletons[k])) :
                   worldTaus[SkelOffset(k) + i] = taus[i]

C7_Witness ==
  /\ IsContactRow
  /\ \E skel \in Skels : skel \notin dcc.mSkeletons
  /\ \E i \in 1 .. Len(WorldDofs) :
       /\ getForceMultiple(Cur, WorldDofs[i]) = -1
       /\ getConstraintForcesWorld(Cur)[i] # 0

\* C8: for a contact of type UNSUPPORTED the position, normal, force and
\* worldTaus-force gradients are zero for every DOF.
C8_UnsupportedZeroGradients ==
  (IsContactRow /\ getContactType(Cur) = "UNSUPPORTED") =>
    \A d \in Dofs :
      /\ getContactPositionGradient(Cur, d) = Zero3
      /\ getContactNormalGradient(Cur, d) = Zero3
      /\ getContactForceGradient(Cur, d) = Zero3
      /\ getContactWorldForceGradient(Cur, d) = Zero6

C8_Witness ==
  /\ IsContactRow
  /\ getContactType(Cur) = "UNSUPPORTED"
  /\ AllFourRelations
  /\ getContactWorldPosition(Cur) # Zero3

\* C9 as stated: every entry of getConstraintForcesJacobian(world) of a
\* constraint on an UNSUPPORTED contact is zero.
C9_Original ==
  (IsContactRow /\ getContactType(Cur) = "UNSUPPORTED") =>
    \A row \in 1 .. Len(WorldDofs) : \A wrt \in 1 .. Len(WorldDofs) :
      getConstraintForcesJacobian(Cur)[row, wrt] = 0

\* C9 amended: for a constraint on an UNSUPPORTED contact every column of
\* the contact-force Jacobian is zero, so entry (row, wrt) of
\* getConstraintForcesJacobian(world) is the screw-axis term alone:
\* multiple(row) * (ad(screw(wrt), screw(row)) . worldForce) when wrt is an
\* ancestor DOF of row, and zero otherwise.
C9_UnsupportedScrewTermOnly ==
  (IsContactRow /\ getContactType(Cur) = "UNSUPPORTED") =>
    /\ \A wrt \in 1 .. Len(WorldDofs) : getContactForceJacobian(Cur)[wrt] = Zero6
    /\ \A row \in 1 .. Len(WorldDofs) : \A wrt \in 1 .. Len(WorldDofs) :
         LET r == WorldDofs[row]
             w == WorldDofs[wrt]
         IN  getConstraintForcesJacobian(Cur)[row, wrt]
               = IF isParentDof(w, r)
                   THEN ExpectedMultiple(AncA(Cur, r), AncB(Cur, r))
                          * Dot6(ad(getWorldScrewAxis(Cur, w), getWorldScrewAxis(Cur, r)),
                                 getWorldForce(Cur))
                 ELSE 0

C9_Witness ==
  /\ IsContactRow
  /\ getContactType(Cur) = "UNSUPPORTED"
  /\ \E row \in 1 .. Len(WorldDofs) : \E wrt \in 1 .. Len(WorldDofs) :
       getConstraintForcesJacobian(Cur)[row, wrt] # 0

\* What the four queries of the copied contact return.
ContactQueries(e) ==
  <<getContactWorldPosition(e), getContactWorldNormal(e), getContactType(e), getEdges(e)>>

\* C10: once the constraint is constructed, a change of the Contact held by
\* the originating ContactConstraint changes nothing that
\* getContactWorldPosition, getContactWorldNormal, getContactType or
\* getEdges return.
C10_ContactCopied ==
  [][(dcc.constructed /\ dcc' = dcc /\ constraint'.contact # constraint.contact)
       => ContactQueries(Cur)' = ContactQueries(Cur)]_vars

C10_Witness ==
  /\ IsContactRow
  /\ getContactType(Cur) = "EDGE_EDGE"
  /\ constraint.contact.type # getContactType(Cur)
  /\ constraint.contact.geom.point # getContactWorldPosition(Cur)
  /\ constraint.contact.geom.normal # getContactWorldNormal(Cur)
  /\ constraint.contact.geom.edgeADir # getEdges(Cur).edgeADir

(***************************************************************************)
(* Properties of the force direction and the world force (Spec).           *)
(***************************************************************************)
\* C14: getContactWorldForceDirection() is the contact normal when the
\* constraint index is 0, and column index-1 of the ODE tangent basis of
\* the current normal when the index is greater than 0.
C14_ForceDirection ==
  dcc.constructed =>
    /\ dcc.mIndex = 0 =>
         getContactWorldForceDirection(Cur) = getContactWorldNormal(Cur)
    /\ (constraint.isContact /\ dcc.mIndex > 0) =>
         getContactWorldForceDirection(Cur)
           = getTangentBasisMatrixODE(getContactWorldNormal(Cur))[(dcc.mIndex - 1) + 1]

\* A friction row whose direction is the second tangent, not the normal.
C14_Witness ==
  /\ IsContactRow
  /\ dcc.mIndex = 2
  /\ getContactWorldNormal(Cur) # Zero3
  /\ getContactWorldForceDirection(Cur) # getContactWorldNormal(Cur)
  /\ getContactWorldForceDirection(Cur)
       # getTangentBasisMatrixODE(getContactWorldNormal(Cur))[1]

\* C15: getWorldForce() is the pure-force wrench at the contact point: its
\* last three components are getContactWorldForceDirection() and its first
\* three are getContactWorldPosition() cross getContactWorldForceDirection().
C15_WorldForce ==
  dcc.constructed =>
    /\ getWorldForce(Cur).tail = getContactWorldForceDirection(Cur)
    /\ getWorldForce(Cur).head
         = Cross(getContactWorldPosition(Cur), getContactWorldForceDirection(Cur))

\* A row with a non-zero torque part.
C15_Witness ==
  /\ IsContactRow
  /\ dcc.mIndex = 1
  /\ getWorldForce(Cur).head # Zero3
  /\ getWorldForce(Cur).tail # Zero3

\* C16: for every DOF and every contact, getContactNormalGradient(d) is
\* orthogonal to the contact normal, EDGE_A and EDGE_B DOFs included.
C16_Original ==
  IsContactRow =>
    \A d \in Dofs :
      Dot(getContactNormalGradient(Cur, d), getContactWorldNormal(Cur)) = 0

\* What the code does give: the gradient is orthogonal to the normal for
\* every DOF that is not EDGE_A or EDGE_B, and for those it is the
\* derivative of the unnormalized edgeADir x edgeBDir, whose component
\* along a x b is -((w x a) . b)(a . b) for EDGE_A and -((w x b) . a)(a . b)
\* for EDGE_B, w being the rotation axis of the DOF.
C16_OrthogonalOffEdges ==
  IsContactRow =>
    \A d \in Dofs :
      LET type == getDofContactType(Cur, d)
          g == getContactNormalGradient(Cur, d)
          w == getWorldScrewAxis(Cur, d).head
          a == mContact(Cur).edgeADir
          b == mContact(Cur).edgeBDir
      IN  /\ type \notin {"EDGE_A", "EDGE_B"} => Dot(g, getContactWorldNormal(Cur)) = 0
          /\ type = "EDGE_A" => Dot(g, Cross(a, b)) = -(Dot(Cross(w, a), b) * Dot(a, b))
          /\ type = "EDGE_B" => Dot(g, Cross(a, b)) = -(Dot(Cross(w, b), a) * Dot(a, b))

\* A self-collision DOF that turns the normal, and an EDGE_A DOF that turns
\* edge A towards edge B.
C16_Witness ==
  /\ IsContactRow
  /\ \E d \in Dofs :
       /\ getDofContactType(Cur, d) = "EDGE_EDGE_SELF_COLLISION"
       /\ getContactNormalGradient(Cur, d) # Zero3
  /\ \E d \in Dofs :
       /\ getDofContactType(Cur, d) = "EDGE_A"
       /\ Dot(getContactNormalGradient(Cur, d), getContactWorldNormal(Cur)) # 0

(***************************************************************************)
(* Properties of the screw-axis gradient and of the Jacobian entries.      *)
(***************************************************************************)
\* wrt is an ancestor of row: its joint lies strictly above row's joint,
\* or both are distinct DOFs of one joint.
DofAbove(wrt, row) ==
  IF DofJoint[wrt] = DofJoint[row]
    THEN wrt # row
    ELSE DofJoint[wrt] \in JointsAbove(DofJoint[row])

\* C19: getScrewAxisGradient(row, wrt) is the zero 6-vector whenever wrt is
\* not an ancestor of row and ad(screw(wrt), screw(row)) otherwise; it is
\* zero for wrt = row and for wrt strictly below row, and two distinct DOFs
\* of one joint are each an ancestor of the other.
C19_ScrewAxisGradient ==
  dcc.constructed =>
    \A row \in Dofs, wrt \in Dofs :
      /\ getScrewAxisGradient(Cur, row, wrt)
           = IF DofAbove(wrt, row)
               THEN ad(getWorldScrewAxis(Cur, wrt), getWorldScrewAxis(Cur, row))
               ELSE Zero6
      /\ wrt = row => getScrewAxisGradient(Cur, row, wrt) = Zero6
      /\ (DofJoint[wrt] # DofJoint[row] /\ DofJoint[row] \in JointsAbove(DofJoint[wrt]))
           => getScrewAxisGradient(Cur, row, wrt) = Zero6

\* Two DOFs of one joint with non-zero gradients both ways, and a DOF
\* whose screw a DOF above it turns while it leaves that one's alone.
C19_Witness ==
  /\ dcc.constructed
  /\ \E row \in Dofs, wrt \in Dofs :
       /\ row # wrt
       /\ DofJoint[row] = DofJoint[wrt]
       /\ getScrewAxisGradient(Cur, row, wrt) # Zero6
       /\ getScrewAxisGradient(Cur, wrt, row) # Zero6
  /\ \E row \in Dofs, wrt \in Dofs :
       /\ DofJoint[row] # DofJoint[wrt]
       /\ getScrewAxisGradient(Cur, row, wrt) # Zero6
       /\ ad(getWorldScrewAxis(Cur, row), getWorldScrewAxis(Cur, wrt)) # Zero6
       /\ getScrewAxisGradient(Cur, wrt, row) = Zero6

\* multiple(row) * (screwGrad(row, wrt) . F + screw(row) . Fgrad(wrt))
ProductRule(e, row, wrt) ==
  getForceMultiple(e, row)
    * (Dot6(getScrewAxisGradient(e, row, wrt), getWorldForce(e))
         + Dot6(getWorldScrewAxis(e, row), getContactWorldForceGradient(e, wrt)))

\* J is a matrix over rows x cols whose entry (r, c) is the derivative of
\* the force on DOF rows[r] with respect to DOF cols[c].
IsDerivativeMatrix(e, J, rows, cols) ==
  /\ DOMAIN J = (1 .. Len(rows)) \X (1 .. Len(cols))
  /\ \A r \in 1 .. Len(rows), c \in 1 .. Len(cols) :
       /\ J[r, c] = getConstraintForceDerivative(e, rows[r], cols[c])
       /\ J[r, c] = ProductRule(e, rows[r], cols[c])

\* C20 (SpecJac): every entry (row, wrt) of getConstraintForcesJacobian, in
\* all four overloads, equals getConstraintForceDerivative(row, wrt)
\* = multiple(row) * (screwGrad(row, wrt) . F + screw(row) . Fgrad(wrt)) and
\* sits at the row and column of the concatenated DOF order of the
\* skeletons passed in.
C20_JacobianEntries ==
  IsContactRow =>
    /\ IsDerivativeMatrix(Cur, getConstraintForcesJacobian(Cur), WorldDofs, WorldDofs)
    /\ \A skel \in Skels, wrt \in Skels :
         IsDerivativeMatrix(Cur, getConstraintForcesJacobianSkelWrt(Cur, skel, wrt),
                            SkelDofs(skel), SkelDofs(wrt))
    /\ \A skels \in SkelLists, wrt \in Skels :
         IsDerivativeMatrix(Cur, getConstraintForcesJacobianSkelsWrt(Cur, skels, wrt),
                            SkelsDofs(skels), SkelDofs(wrt))
    /\ \A skels \in SkelLists :
         IsDerivativeMatrix(Cur, getConstraintForcesJacobianSkels(Cur, skels),
                            SkelsDofs(skels), SkelsDofs(skels))

\* A Jacobian with an entry that is all screw-axis term, one that is all
\* force term, and a non-zero entry outside the first column block.
C20_Witness ==
  /\ IsContactRow
  /\ \E r \in Dofs, c \in Dofs :
       /\ Dot6(getScrewAxisGradient(Cur, r, c), getWorldForce(Cur)) # 0
       /\ getForceMultiple(Cur, r) # 0
  /\ \E r \in Dofs, c \in Dofs :
       /\ Dot6(getWorldScrewAxis(Cur, r), getContactWorldForceGradient(Cur, c)) # 0
       /\ getForceMultiple(Cur, r) # 0
  /\ \E r \in 1 .. NumDofs, c \in 1 .. NumDofs :
       /\ c > Len(SkelDofs(WorldSkeletons[1]))
       /\ getConstraintForcesJacobianSkels(Cur, WorldSkeletons)[r, c] # 0

(***************************************************************************)
(* Properties of the gradients by DOF-contact type (SpecJac).              *)
(***************************************************************************)
\* The DOFs of the current constraint whose DOF-contact type is t.
DofsOfType(t) == {d \in Dofs : getDofContactType(Cur, d) = t}

\* The angular part of the world screw of DOF d.
Rot(d) == getWorldScrewAxis(Cur, d).head

\* C21 (SpecJac): getContactPositionGradient(d) is zero for FACE, NONE and
\* UNSUPPORTED; it is gradientWrtTheta(worldScrew(d), point) for VERTEX,
\* VERTEX_FACE_SELF_COLLISION and EDGE_EDGE_SELF_COLLISION; for EDGE_A it
\* is the gradient of the edge-edge intersection with edge A's fixed point
\* and direction moving under d and edge B's gradients zero; for EDGE_B
\* the same with edge B moving and edge A's gradients zero.
C21_PositionGradientByType ==
  IsContactRow =>
    \A d \in Dofs :
      LET type == getDofContactType(Cur, d)
          screw == getWorldScrewAxis(Cur, d)
          ct == mContact(Cur)
          grad == getContactPositionGradient(Cur, d)
      IN  /\ type \in {"FACE", "NONE", "UNSUPPORTED"} => grad = Zero3
          /\ type \in {"VERTEX", "VERTEX_FACE_SELF_COLLISION", "EDGE_EDGE_SELF_COLLISION"}
               => grad = Add(Cross(screw.head, ct.point), screw.tail)
          /\ type = "EDGE_A"
               => grad = getContactPointGradient(
                           ct.edgeAFixedPoint,
                           Add(Cross(screw.head, ct.edgeAFixedPoint), screw.tail),
                           ct.edgeADir, Cross(screw.head, ct.edgeADir),
                           ct.edgeBFixedPoint, Zero3, ct.edgeBDir, Zero3)
          /\ type = "EDGE_B"
               => grad = getContactPointGradient(
                           ct.edgeAFixedPoint, Zero3, ct.edgeADir, Zero3,
                           ct.edgeBFixedPoint,
                           Add(Cross(screw.head, ct.edgeBFixedPoint), screw.tail),
                           ct.edgeBDir, Cross(screw.head, ct.edgeBDir))

\* An edge-edge contact between two branches: DOFs of type EDGE_A, EDGE_B
\* and EDGE_EDGE_SELF_COLLISION that all move the contact point, and a
\* DOF of type NONE.
C21_Witness ==
  /\ IsContactRow
  /\ \A t \in {"EDGE_A", "EDGE_B", "EDGE_EDGE_SELF_COLLISION"} :
       \E d \in DofsOfType(t) : getContactPositionGradient(Cur, d) # Zero3
  /\ DofsOfType("NONE") # {}

\* C22 (SpecJac): getContactNormalGradient(d) is zero for VERTEX, NONE and
\* UNSUPPORTED; it is rot x normal for FACE and both self-collision types,
\* rot being the angular part of worldScrew(d); it is
\* (rot x edgeADir) x edgeBDir for EDGE_A and edgeADir x (rot x edgeBDir)
\* for EDGE_B; so for two edges along x and y and a DOF rotating about z
\* the normal gradient of an EDGE_A or EDGE_B DOF is zero.
C22_NormalGradientByType ==
  IsContactRow =>
    \A d \in Dofs :
      LET type == getDofContactType(Cur, d)
          ct == mContact(Cur)
          grad == getContactNormalGradient(Cur, d)
      IN  /\ type \in {"VERTEX", "NONE", "UNSUPPORTED"} => grad = Zero3
          /\ type \in {"FACE", "VERTEX_FACE_SELF_COLLISION", "EDGE_EDGE_SELF_COLLISION"}
               => grad = Cross(Rot(d), ct.normal)
          /\ type = "EDGE_A" => grad = Cross(Cross(Rot(d), ct.edgeADir), ct.edgeBDir)
          /\ type = "EDGE_B" => grad = Cross(ct.edgeADir, Cross(Rot(d), ct.edgeBDir))
          /\ (/\ type \in {"EDGE_A", "EDGE_B"}
              /\ ct.edgeADir = UnitX /\ ct.edgeBDir = UnitY /\ Rot(d) = UnitZ)
               => grad = Zero3

\* Edges along x and y with an EDGE_A or EDGE_B DOF rotating about z, and
\* next to it an edge DOF about another axis whose normal gradient is not
\* zero.
C22_Witness ==
  /\ IsContactRow
  /\ mContact(Cur).edgeADir = UnitX
  /\ mContact(Cur).edgeBDir = UnitY
  /\ \E d \in DofsOfType("EDGE_A") \cup DofsOfType("EDGE_B") : Rot(d) = UnitZ
  /\ \E d \in DofsOfType("EDGE_A") \cup DofsOfType("EDGE_B") :
       getContactNormalGradient(Cur, d) # Zero3

\* C24 (SpecJac): getContactWorldForceGradient(d) is the product rule on
\* [point x dir; dir]: its head is point x forceGradient(d)
\* + positionGradient(d) x dir and its tail is forceGradient(d); column i
\* of getContactForceJacobian(world) and of getContactForceJacobian(skel)
\* is getContactWorldForceGradient of the i-th DOF of the world or skeleton.
C24_WorldForceGradient ==
  IsContactRow =>
    LET point == getContactWorldPosition(Cur)
        dir == getContactWorldForceDirection(Cur)
    IN  /\ \A d \in Dofs :
             LET grad == getContactWorldForceGradient(Cur, d)
             IN  /\ grad.head = Add(Cross(point, getContactForceGradient(Cur, d)),
                                    Cross(getContactPositionGradient(Cur, d), dir))
                 /\ grad.tail = getContactForceGradient(Cur, d)
        /\ DOMAIN getContactForceJacobian(Cur) = 1 .. NumDofs
        /\ \A i \in 1 .. NumDofs :
             getContactForceJacobian(Cur)[i]
               = getContactWorldForceGradient(Cur, WorldDofs[i])
        /\ \A skel \in Skels :
             /\ DOMAIN getContactForceJacobianSkel(Cur, skel) = 1 .. Len(SkelDofs(skel))
             /\ \A i \in 1 .. Len(SkelDofs(skel)) :
                  getContactForceJacobianSkel(Cur, skel)[i]
                    = getContactWorldForceGradient(Cur, SkelDofs(skel)[i])

\* A DOF for which both terms of the product rule are non-zero, and a
\* non-zero column in the Jacobian of the second skeleton.
C24_Witness ==
  /\ IsContactRow
  /\ \E d \in Dofs :
       /\ Cross(getContactWorldPosition(Cur), getContactForceGradient(Cur, d)) # Zero3
       /\ Cross(getContactPositionGradient(Cur, d),
                getContactWorldForceDirection(Cur)) # Zero3
  /\ \E i \in 1 .. Len(SkelDofs(WorldSkeletons[2])) :
       getContactForceJacobianSkel(Cur, WorldSkeletons[2])[i] # Zero6

\* C29 (SpecJac): for every DOF wrt that is an ancestor of neither body A
\* nor body B, column wrt of getConstraintForcesJacobian(world) is zero:
\* a row DOF with a non-zero force multiple has no such wrt above it, so
\* the screw-axis-gradient term vanishes together with the force-gradient
\* term.
C29_UnrelatedColumnZero ==
  IsContactRow =>
    \A wrt \in 1 .. NumDofs :
      (~AncA(Cur, WorldDofs[wrt]) /\ ~AncB(Cur, WorldDofs[wrt])) =>
        /\ \A row \in 1 .. NumDofs :
             /\ getConstraintForcesJacobian(Cur)[row, wrt] = 0
             /\ getForceMultiple(Cur, WorldDofs[row]) # 0 =>
                  /\ ~isParentDof(WorldDofs[wrt], WorldDofs[row])
                  /\ getScrewAxisGradient(Cur, WorldDofs[row], WorldDofs[wrt]) = Zero6
        /\ getContactForceJacobian(Cur)[wrt] = Zero6

\* A DOF above neither body that sits above another DOF whose screw axis
\* it turns against the contact force, next to a column that is not zero.
C29_Witness ==
  /\ IsContactRow
  /\ \E wrt \in Dofs, row \in Dofs :
       /\ ~AncA(Cur, wrt) /\ ~AncB(Cur, wrt)
       /\ isParentDof(wrt, row)
       /\ Dot6(getScrewAxisGradient(Cur, row, wrt), getWorldForce(Cur)) # 0
  /\ \E row \in 1 .. NumDofs, wrt \in 1 .. NumDofs :
       getConstraintForcesJacobian(Cur)[row, wrt] # 0

(***************************************************************************)
(* Properties of the force gradient near the threshold (SpecGrad).         *)
(***************************************************************************)
\* The types for which getContactForceGradient looks at the normal gradient.
GradientTypes ==
  {"FACE", "VERTEX_FACE_SELF_COLLISION", "EDGE_A", "EDGE_B", "EDGE_EDGE_SELF_COLLISION"}

\* C23 as stated (SpecGrad): getContactForceGradient(d) equals the normal
\* gradient when the index is 0; for index > 0 it is the zero vector when
\* the squared norm of the normal gradient is below 1e-12, and otherwise
\* column index-1 of the ODE tangent-basis gradient at (normal,
\* normalGradient).
C23_Original ==
  call.pc = "returned" =>
    /\ call.mIndex = 0 => call.result = call.normalGradient
    /\ (call.mIndex > 0 /\ call.type \in GradientTypes) =>
         call.result
           = IF squaredNorm(call.normalGradient) < SquaredNormThreshold THEN Zero3
             ELSE getTangentBasisMatrixODEGradient(call.normal,
                                                   call.normalGradient)[call.mIndex]

\* C23 as the code has it (SpecGrad): for index > 0 and a squared norm of
\* at most 1e-12 the result is the normal gradient itself, which is the
\* zero vector only when the normal gradient is; above 1e-12 it is column
\* index-1 of the ODE tangent-basis gradient; for index 0 it is the normal
\* gradient.
C23_ShortCircuitReturnsNormalGradient ==
  call.pc = "returned" =>
    /\ call.mIndex = 0 => call.result = call.normalGradient
    /\ (call.mIndex > 0 /\ call.type \in GradientTypes) =>
         call.result
           = IF squaredNorm(call.normalGradient) <= SquaredNormThreshold
               THEN call.normalGradient
             ELSE getTangentBasisMatrixODEGradient(call.normal,
                                                   call.normalGradient)[call.mIndex]
    /\ call.type \notin GradientTypes => call.result = Zero3

\* A tangent row whose normal gradient is not zero but below the
\* threshold, and whose tangent-basis gradient differs from it.
C23_Witness ==
  /\ call.pc = "returned"
  /\ call.mIndex > 0
  /\ call.type \in GradientTypes
  /\ call.normalGradient # Zero3
  /\ squaredNorm(call.normalGradient) < SquaredNormThreshold
  /\ call.result = call.normalGradient
  /\ getTangentBasisMatrixODEGradient(call.normal, call.normalGradient)[call.mIndex]
       # call.normalGradient

(***************************************************************************)
(* Properties of the finite-difference validator (SpecFD).                 *)
(***************************************************************************)
\* C11: every brute-force routine returns with the world's positions,
\* velocities and forces equal to their values at entry, whichever way it
\* returns (after the loop, after the single perturbation, or early).
C11_WorldRestored ==
  frame.pc = "returned" =>
    /\ world.q = frame.entry.q
    /\ world.dq = frame.entry.dq
    /\ world.tau = frame.entry.tau

\* A Jacobian routine has perturbed every coordinate and returned.
C11_Witness ==
  /\ frame.pc = "returned"
  /\ frame.routine = "bruteForceContactPositionJacobian"
  /\ frame.i = NumDofs
  /\ frame.moved
  /\ \E i \in 1 .. NumDofs : frame.entry.q[i] # 0

(***************************************************************************)
(* Properties of the boxed LCP solver (SpecLcp).                           *)
(***************************************************************************)
\* C12: solve never lets an exception escape; it returns false when
\* dSolveLCP throws anything and otherwise the boolean dSolveLCP returned.
C12_SolveNeverThrows ==
  solver.pc = "returned" =>
    /\ ~solver.escaped
    /\ solver.outcome.kind = "throws" => solver.result = FALSE
    /\ solver.outcome.kind = "returns" => solver.result = solver.outcome.value

\* dSolveLCP threw something that is not a std::exception.
C12_Witness ==
  /\ solver.pc = "returned"
  /\ solver.outcome.kind = "throws"
  /\ solver.outcome.what = "int"
  /\ solver.n > 0

\* C13: after setOffsetIntoWorld(o, u), getPeerConstraint(snapshot) is
\* element o of the snapshot's upper-bound list when u is true and element
\* o of its clamping list when u is false.
C13_PeerByFlagAndOffset ==
  [][\A o \in Offsets, u \in BOOLEAN :
       SetOffsetIntoWorld(o, u) =>
         \A bs \in BackpropSnapshots :
           /\ (u /\ o < Len(bs.upperBound))
                 => getPeerConstraint(peerId, bs)' = bs.upperBound[o + 1]
           /\ (~u /\ o < Len(bs.clamping))
                 => getPeerConstraint(peerId, bs)' = bs.clamping[o + 1]]_vars

\* An upper-bound row at offset 1 whose clamping namesake is another row,
\* looked up by a brute-force routine.
C13_Witness ==
  /\ peerId.assigned
  /\ peerId.mIsUpperBoundConstraint
  /\ peerId.mOffsetIntoWorld = 1
  /\ frame.pc = "returned"
  /\ frame.peer = 4
  /\ \E bs \in BackpropSnapshots :
       /\ Len(bs.clamping) > 1
       /\ Len(bs.upperBound) > 1
       /\ getPeerConstraint(peerId, bs) = bs.upperBound[2]
       /\ bs.clamping[2] # bs.upperBound[2]

(***************************************************************************)
(* Properties of the columns of the brute-force Jacobians (SpecFD).        *)
(***************************************************************************)
\* EPS of a brute-force Jacobian.
EpsOf(routine) ==
  IF routine \in LinearJacobianRoutines THEN PositionEps ELSE ConstraintForcesEps

PeerList(bs) ==
  IF peerId.mIsUpperBoundConstraint THEN bs.upperBound ELSE bs.clamping

\* C27 as stated (SpecFD): in every brute-force routine the peer looked up
\* after a perturbation exists: the offset was set before the lookup and
\* indexes an entry of the new snapshot's clamping list (of its
\* upper-bound list for an upper-bound constraint); a column without peer
\* is rejected, never read from a missing constraint.
C27_Original ==
  frame.peer # NoPeer =>
    /\ peerId.assigned
    /\ frame.peer \in Rows
    /\ frame.pc # "crashed"

\* C27 as the code has it (SpecFD): the lookup indexes the list without
\* a test; it yields an entry of the list exactly when the offset is below
\* the length of the list and reads past the end otherwise, and a routine
\* goes down only on such a read.
C27_PeerOnlyWhenOffsetInRange ==
  /\ \A bs \in BackpropSnapshots :
       IF peerId.mOffsetIntoWorld < Len(PeerList(bs))
         THEN getPeerConstraint(peerId, bs) = PeerList(bs)[peerId.mOffsetIntoWorld + 1]
         ELSE getPeerConstraint(peerId, bs) = GarbagePeer
  /\ frame.pc = "crashed" => frame.peer = GarbagePeer
  /\ frame.peer \in Rows \cup {NoPeer, GarbagePeer}

\* A column of a Jacobian whose peer was found at an offset that had been
\* set, on an upper-bound row.
C27_Witness ==
  /\ frame.routine \in LinearJacobianRoutines
  /\ frame.pc = "loop"
  /\ frame.i = 2
  /\ peerId.assigned
  /\ peerId.mIsUpperBoundConstraint
  /\ peerId.mOffsetIntoWorld = 1
  /\ frame.peer \in Rows

(***************************************************************************)
(* Properties of the queries on a constraint without contact (SpecCall).   *)
(***************************************************************************)
\* C26 as stated (SpecCall): on a constraint that is no contact constraint
\* the contact type is UNSUPPORTED, and getDofContactType,
\* getContactPositionGradient, getContactNormalGradient and
\* getContactForceGradient complete for every DOF without using the absent
\* contact constraint; the gradients are zero.
C26_Original ==
  ~constraint.isContact =>
    /\ getContactType(Cur) = "UNSUPPORTED"
    /\ call.pc # "crashed"
    /\ (call.pc = "returned" /\ call.fn # "getDofContactType") => call.result = Zero3

\* C26 as the code has it (SpecCall): the contact type is UNSUPPORTED and
\* no Contact was copied; each of the four queries reads the absent
\* contact constraint first, and when the call survives that read the DOF
\* is classified UNSUPPORTED or NONE and the gradient is zero.
C26_ZeroIfTheNullReadSurvives ==
  ~constraint.isContact =>
    /\ getContactType(Cur) = "UNSUPPORTED"
    /\ dcc.mContact = NullPtr
    /\ \A fn \in DofQueries, d \in Dofs :
         \E out \in QueryOutcomes(Cur, fn, d) : out.pc = "crashed"
    /\ call.pc = "returned" =>
         IF call.fn = "getDofContactType"
           THEN call.result \in {"UNSUPPORTED", "NONE"}
           ELSE call.result = Zero3

\* A force gradient asked of a constraint without contact, on a tangent
\* row, that came back.
C26_Witness ==
  /\ ~constraint.isContact
  /\ call.pc = "returned"
  /\ call.fn = "getContactForceGradient"
  /\ dcc.mIndex = 2
  /\ call.result = Zero3

(***************************************************************************)
(* Properties of the ancestor test (SpecTree).                             *)
(***************************************************************************)
\* The joints on the path of parent joints from joint j to its root.
RECURSIVE PathToRoot(_, _)
PathToRoot(shape, j) ==
  {j} \cup (IF shape.parent[j] = 0 THEN {} ELSE PathToRoot(shape, shape.parent[j]))

\* The joint owning the DOF is the body's parent joint or above it.
TrueAncestor(q) == q.dofJoint \in PathToRoot(q.shape, q.node)

\* C18: isParent(dof, body) is true exactly when the joint owning dof is
\* the body's parent joint or an ancestor joint of it; the early exits
\* never turn a true ancestor relation into false.
C18_Original ==
  query.pc = "returned" => (query.result <=> TrueAncestor(query))

\* What the code does give: isParent never answers true for a DOF that is
\* not an ancestor, and it is exact whenever the body's parent joint owns
\* at least one DOF.
C18_ExactWhenParentJointHasDofs ==
  query.pc = "returned" =>
    /\ query.result => TrueAncestor(query)
    /\ query.shape.numDofs[query.node] > 0 => (query.result <=> TrueAncestor(query))

\* A true ancestor two joints up, found past the index-in-tree exit.
C18_Witness ==
  /\ query.pc = "returned"
  /\ query.result
  /\ query.dofJoint # query.node
  /\ query.shape.parent[query.node] # query.dofJoint
  /\ query.shape.numDofs[query.node] > 0

(***************************************************************************)
(* Properties of the walks (SpecWalk).                                     *)
(***************************************************************************)
\* The number of joints from j up to the root of its tree.
Depth(shape, j) == Cardinality(PathToRoot(shape, j))

\* A turn of the loop that goes on moves the cursor to the parent joint of
\* the joint's parent body, one joint nearer the root.
WalkMovesUp ==
  (query.pc = "walking" /\ query'.pc = "walking") =>
    /\ query'.joint = query.shape.parent[query.joint]
    /\ Depth(query.shape, query'.joint) < Depth(query.shape, query.joint)

\* The loop is left with true on the searched joint and with false on a
\* joint without parent body (or whose parent body has no parent joint).
WalkExits ==
  (query.pc = "walking" /\ query'.pc = "returned") =>
    /\ query'.result <=> query.joint = query.dofJoint
    /\ ~query'.result => query.shape.parent[query.joint] = 0

\* C28 (SpecWalk): both isParent walks terminate on every finite joint
\* tree: each turn moves to the parent joint of the current joint's parent
\* body, and the loop exits with true on reaching the searched joint or
\* with false on reaching a joint with no parent body or whose parent body
\* has no parent joint.
C28_WalksTerminate ==
  /\ [][WalkMovesUp /\ WalkExits]_vars
  /\ <>(query.pc = "returned")

\* A DOF-versus-DOF walk that has climbed one joint and has further to go.
C28_Witness ==
  /\ query.pc = "walking"
  /\ query.overload = "isParent(parent, child)"
  /\ query.joint # query.node
  /\ query.joint # query.dofJoint
  /\ query.shape.parent[query.joint] # 0

(***************************************************************************)
(* Properties of the ReferentialSkeleton's index bookkeeping (SpecRef).    *)
(* A DOF is referred to when it is in the DOF list, a body node when it is *)
(* in the body-node list or one of its DOFs is in the DOF list.            *)
(***************************************************************************)
ReferredDofs == {refSkel.mDofs[i] : i \in DOMAIN refSkel.mDofs}

ReferredBodyNodes ==
  {refSkel.mBodyNodes[i] : i \in DOMAIN refSkel.mBodyNodes}
    \cup {getChildBodyNode(dof) : dof \in ReferredDofs}

PlacesOf(bn) == {i \in DOMAIN refSkel.mBodyNodes : refSkel.mBodyNodes[i] = bn}

\* C30 (SpecRef): after any sequence of registerBodyNode,
\* registerDegreeOfFreedom, unregisterDegreeOfFreedom and
\* unregisterBodyNode calls the index bookkeeping is consistent:
\* getIndexOf(getDof(i)) = i for every i < getNumDofs(), every registered
\* body node is exactly once in the body-node list, at the index the index
\* map records for it, so that getNumBodyNodes() counts the distinct
\* registered body nodes, and getIndexOf returns INVALID_INDEX exactly for
\* the DOFs and body nodes that are not registered.
C30_Original ==
  /\ \A i \in 0 .. (getNumDofs(refSkel) - 1) :
       getIndexOf_DegreeOfFreedom(refSkel, getDof(refSkel, i)) = i
  /\ \A bn \in ReferredBodyNodes :
       PlacesOf(bn) = {getIndexOf_BodyNode(refSkel, bn) + 1}
  /\ getNumBodyNodes(refSkel) = Cardinality(ReferredBodyNodes)
  /\ \A dof \in DegreesOfFreedom :
       getIndexOf_DegreeOfFreedom(refSkel, dof) = INVALID_INDEX
         <=> dof \notin ReferredDofs
  /\ \A bn \in RefBodyNodes :
       getIndexOf_BodyNode(refSkel, bn) = INVALID_INDEX
         <=> bn \notin ReferredBodyNodes

\* What the code does keep: the index map stays empty, so every getIndexOf
\* is INVALID_INDEX, and the body-node list holds the body node of each
\* listed DOF twice, in the order of the DOF list.
C30_NothingIsIndexed ==
  /\ DOMAIN refSkel.mIndexMap = {}
  /\ \A dof \in DegreesOfFreedom :
       getIndexOf_DegreeOfFreedom(refSkel, dof) = INVALID_INDEX
  /\ \A bn \in RefBodyNodes : getIndexOf_BodyNode(refSkel, bn) = INVALID_INDEX
  /\ getNumBodyNodes(refSkel) = 2 * getNumDofs(refSkel)
  /\ \A i \in 1 .. getNumDofs(refSkel) :
       /\ refSkel.mBodyNodes[2 * i - 1] = getChildBodyNode(refSkel.mDofs[i])
       /\ refSkel.mBodyNodes[2 * i] = getChildBodyNode(refSkel.mDofs[i])

\* Two body nodes have been registered, one of them with both DOFs of its
\* joint.
C30_Witness ==
  /\ Cardinality(ReferredBodyNodes) >= 2
  /\ \E bn \in ReferredBodyNodes :
       /\ getNumDofsOfParentJoint(bn) >= 2
       /\ \A i \in 0 .. (getNumDofsOfParentJoint(bn) - 1) : <<bn, i>> \in ReferredDofs

====
